---------------------------- MODULE Spec2Model ----------------------------
(***************************************************************************)
(* A model of heywood8/telegram-LeoLM-bot: the rate limiter                *)
(* (bot/rate_limiter.py), the session manager (bot/session.py) and the     *)
(* message handler that composes them (bot/handlers.py), the tool plugins  *)
(* registry (bot/mcp/manager.py) and the model gateway                     *)
(* (bot/llm/service.py, bot/llm/provider.py).                              *)
(*                                                                         *)
(* Thirteen specifications share the definitions of this module:           *)
(*   SpecRL  the rate limiter as the handlers drive it, one store          *)
(*           operation (one await) per step;                               *)
(*   SpecCW  the turn store of one session: update_context,                *)
(*           get_context_window, clear_session;                            *)
(*   Spec    handle_message and reset_command over the rate-limit store,   *)
(*           the session cache and the database;                           *)
(*   SpecTR  one tool round of handle_message, from the first model call   *)
(*           to the reply, one await per step;                             *)
(*   SpecGW  the model gateway: retry, circuit breaker, timeout and the    *)
(*           HTTP exchange of the provider;                                *)
(*   SpecNM  the normalisation of a backend reply into text and tool       *)
(*           calls;                                                        *)
(*   SpecMCP the registration of plugins and their tools;                  *)
(*   SpecSP  the system prompt of the model requests;                      *)
(*   SpecTC  the cost of a turn in the budget walk of get_context_window;  *)
(*   SpecDU  update_context and the database session of its caller;        *)
(*   SpecHB  the circuit breaker under calls in flight together;           *)
(*   SpecWP  the pending system-prompt update of a chat;                   *)
(*   SpecRLFair  the rate limiter with updates handled one at a time and   *)
(*           a store that goes on expiring its keys.                       *)
(***************************************************************************)
EXTENDS Integers, Sequences, FiniteSets, TLC

(***************************************************************************)
(* Bounds of the model                                                     *)
(***************************************************************************)
\* concurrent handle_message tasks of SpecRL
NumProcs == 2
\* Telegram users
NumUsers == 2
\* messages that arrive in one run of SpecRL
MaxMessages == 3

\* RateLimitConfig, scaled down (defaults 20 / 60 / 100 / 60)
user_requests == 1
user_window == 2
global_requests == 2
global_window == 2

\* turns a session of SpecCW already holds at the start
MaxOld == 10
\* update_context and clear_session calls in one run of SpecCW
MaxOps == 2
\* calls of one run of SpecCW that fall into the same clock instant as the call before
MaxTies == 1
\* updates (messages and /reset commands) the dispatcher hands over in one run of Spec
MaxUpdates == 2
\* awaits that raise (redis or database unreachable, the model failing) in one run of Spec
MaxFaults == 1

\* _load_messages(session_id, limit=10)
LoadLimit == 10
\* ResourceLimits.max_context_tokens, the default max_tokens of get_context_window
max_context_tokens == 8000

\* Python's None, and a present value, as a sequence of length 0 or 1
None == << >>
Some(v) == <<v>>
Val(o) == o[1]
\* no user (a task that handles no message)
NoUser == 0
GlobalKey == 0

Users == 1..NumUsers
Procs == 1..NumProcs
\* "ratelimit:user:{user_id}" is modelled by the user id, "ratelimit:global" by GlobalKey (0)
Keys == Users \cup {GlobalKey}

VARIABLES
    \* ---- the redis store of the rate limiter
    redis_count,     \* key -> stored counter, None when the key does not exist
    redis_ttl,       \* key -> remaining seconds; -1: no expiry; -2: no such key
    \* ---- one handle_message task per process, lines 298-307 of handlers.py
    rl_pc,           \* where the task is
    rl_user,         \* user.id of the message being handled, NoUser when none is
    \* (user_count and global_count of check_limit are compared in the step that
    \*  reads them and never used again: the place the task is at holds the outcome)
    ttl,             \* local of check_limit: Some(reply of redis.ttl), kept for the record
                     \* until the task takes its next message
    rl_result,       \* what the limiter gave: NoResult, a returned pair, or raised
    arrived          \* messages that have arrived so far

vars_rl == <<redis_count, redis_ttl, rl_pc, rl_user, ttl,
             rl_result, arrived>>

VARIABLES
    \* ---- the database (bot/models.py)
    db_messages,     \* table messages in insertion (id) order: the row's id is its index
    db_sessions,     \* table sessions: the row's id is its index
    now,             \* what datetime.utcnow() gives
    \* ---- the caller of the SessionManager in SpecCW
    cw,              \* the last get_context_window call and what it returned
    last_op,         \* the last update_context or clear_session call
    ops,             \* update_context and clear_session calls so far
    ties             \* calls so far at the same clock instant as the call before

VARIABLES
    \* ---- the rest of the database and the session cache
    db_users,        \* table users: the telegram ids that have a row
    session_seq,     \* the sequence of sessions.id: the last id given out
    session_cache,   \* redis keys session:{chat_id}: the cached UserSession or None
    \* ---- the handler the dispatcher is running (bot/handlers.py)
    h_pc,            \* where the handler is
    h_msg,           \* the update: chat_id, user, message_text, addressed
    tx,              \* what the handler's database session has flushed and not committed
    user_session,    \* the UserSession get_session returned, or None
    context_messages, \* the context handed to the model, or None
    response_text,   \* the text to save and to send, or None
    h_tokens,        \* tokens: the token count the model reported, or None
    replies,         \* the replies sent for this update, in order
    raised,          \* an exception left the handler
    model_calls,     \* process_message calls made for this update
    tool_calls,      \* tools executed for this update
    saved_at,        \* created_at of the user turn of this update once committed
    updates,         \* updates handed over so far
    faults,          \* awaits that raised so far
    \* one tool round of handle_message (SpecTR)
    h_response,      \* response: what the first process_message returned, or None
    tool_results_list, \* the results _handle_tool_calls has gathered so far
    executed,        \* the tool names handed to a plugin, in order
    call_tools,      \* the `tools` argument of each process_message call, in order
    sent,            \* the texts sent to the chat, in order
    \* the model gateway: LLMService._generate_with_retry (SpecGW)
    gw_pc,           \* "idle", "call" (an attempt is due) or "backoff"
    gw_tools,        \* the `tools` argument of the call, the names of the tools
    gw_calls,        \* process_message calls made so far
    attempt_number,  \* the attempt of the call tenacity is at
    invocations,     \* provider.generate invocations of the call
    elapsed,         \* the time the call has taken so far
    gw_clock,        \* time.monotonic()
    cb_state,        \* the circuit breaker: "closed" or "open"
    cb_failure_count, \* its count of failures since the last success
    cb_opened,       \* the instant it opened
    requests,        \* the payloads posted by the last provider.generate
    responses,       \* the status of the answer to each of them
    generate_result, \* how the last provider.generate ended, or None
    last_error,      \* what made the last attempt fail, or None
    gw_outcome,      \* how the call ended, or None
    consecutive_failures, \* failed provider.generate invocations in a row
    rejected,        \* calls the open breaker turned away
    trial_calls,     \* attempts let through after a cool-down
    \* the normalisation of a backend reply (SpecNM)
    nm_data,         \* data: the JSON body of the backend's answer, or None
    nm_reply,        \* what provider.generate returned for it, or None
    nm_text,         \* response_text: the text the handler resolved, or None
    \* the plugin manager: MCPManager (SpecMCP)
    mcps,            \* the names of the registered plugins
    mgr_tool_registry, \* tool_registry: tool name -> the plugin it belongs to, or None
    mgr_last,        \* the last register_mcp call and how it ended
    mgr_ops,         \* register_mcp calls made so far
    \* the system prompt of the LLMService (SpecSP)
    custom_system_prompt, \* the prompt an admin set, or None
    sp_messages,     \* the messages of the last model request
    sp_ops,          \* the calls made so far
    \* a caller of update_context and its database session (SpecDU)
    du_pc,           \* "idle", or "returned": update_context has returned
    flushed,         \* the rows flushed in the open transaction, not committed
    returned_turns,  \* the rows update_context has returned for, in order
    \* concurrent callers of the circuit breaker (SpecHB)
    hb_pc,           \* caller -> "idle" or "in_flight": its call is at the backend
    hb_trial,        \* caller -> its call was let through by a breaker in state open
    hb_calls,        \* calls made so far
    \* the pending system-prompt update of a chat (SpecWP)
    waiting_for_prompt, \* _waiting_for_prompt: chat id -> the admin awaited, or NoUser
    wp_last,         \* the last update handled and what became of it
    wp_ops           \* updates handled so far

vars_db == <<db_messages, db_sessions, now>>
vars_cw == <<cw, last_op, ops, ties>>
vars_store == <<db_users, session_seq, session_cache>>
vars_h == <<h_pc, h_msg, tx, user_session, context_messages, response_text, h_tokens,
            replies, raised, model_calls, tool_calls, saved_at, updates, faults>>

vars_tr == <<h_response, tool_results_list, executed, call_tools, sent>>

vars_gw == <<gw_pc, gw_tools, gw_calls, attempt_number, invocations, elapsed, gw_clock,
             cb_state, cb_failure_count, cb_opened, requests, responses,
             generate_result, last_error, gw_outcome, consecutive_failures, rejected,
             trial_calls>>

vars_nm == <<nm_data, nm_reply, nm_text>>
vars_mcp == <<mcps, mgr_tool_registry, mgr_last, mgr_ops>>
vars_sp == <<custom_system_prompt, sp_messages, sp_ops>>
vars_du == <<du_pc, flushed, returned_turns>>
vars_hb == <<hb_pc, hb_trial, hb_calls>>
vars_wp == <<waiting_for_prompt, wp_last, wp_ops>>
vars_ext == <<vars_nm, vars_mcp, vars_sp, vars_du, vars_hb, vars_wp>>

vars == <<vars_rl, vars_db, vars_cw, vars_store, vars_h, vars_tr, vars_gw, vars_ext>>

(***************************************************************************)
(* The redis commands the limiter uses                                     *)
(***************************************************************************)
\* GET key
RedisGet(cnt, k) == cnt[k]

\* TTL key: -2 when the key does not exist, -1 when it has no expiry
RedisTtl(cnt, t, k) == IF cnt[k] = None THEN -2 ELSE t[k]

\* INCR key: a missing key counts from 0 and is created without expiry
RedisIncr(st, k) ==
    [count |-> [st.count EXCEPT ![k] = IF @ = None THEN Some(1) ELSE Some(Val(@) + 1)],
     ttl   |-> [st.ttl EXCEPT ![k] = IF st.count[k] = None THEN -1 ELSE @]]

\* EXPIRE key seconds (seconds > 0 here)
RedisExpire(st, k, seconds) ==
    IF st.count[k] = None THEN st
    ELSE [count |-> st.count, ttl |-> [st.ttl EXCEPT ![k] = seconds]]

\* DEL key
RedisDelete(st, k) ==
    [count |-> [st.count EXCEPT ![k] = None], ttl |-> [st.ttl EXCEPT ![k] = -2]]

(***************************************************************************)
(* RateLimiter.check_limit, rate_limiter.py 32-57                          *)
(***************************************************************************)
\* a mutant of AtLimit: the comparison is strict
AtLimitStrict(count, limit) == count # None /\ Val(count) > limit

\* `count and int(count) >= limit`: a missing counter (None) never denies
AtLimit(count, limit) == count # None /\ Val(count) >= limit

\* a mutant of RetryAfter: a TTL of 0 is passed on
RetryAfterNoFallbackAtZero(t, window) == IF t >= 0 THEN t ELSE window

\* `ttl if ttl > 0 else window`
RetryAfter(t, window) == IF t > 0 THEN t ELSE window

\* a mutant of OnStoreError: the limiter swallows the error and allows
OnStoreErrorFailOpen == [kind |-> "returned", allowed |-> TRUE, retry_after |-> None]

\* check_limit and consume_token have no try/except: a redis error leaves the
\* coroutine as an exception, no (allowed, retry_after) pair is returned
OnStoreError == [kind |-> "raised"]

Denial(t, window) == Some(RetryAfter(t, window))

NoResult == [kind |-> "none"]

\* check_limit run with no other task in between its awaits
CheckLimit(cnt, t, u) ==
    IF AtLimit(RedisGet(cnt, u), user_requests)
    THEN [kind |-> "returned", allowed |-> FALSE,
          retry_after |-> Denial(RedisTtl(cnt, t, u), user_window)]
    ELSE IF AtLimit(RedisGet(cnt, GlobalKey), global_requests)
    THEN [kind |-> "returned", allowed |-> FALSE,
          retry_after |-> Denial(RedisTtl(cnt, t, GlobalKey), global_window)]
    ELSE [kind |-> "returned", allowed |-> TRUE, retry_after |-> None]

(***************************************************************************)
(* RateLimiter.consume_token, rate_limiter.py 59-74: one MULTI/EXEC batch  *)
(***************************************************************************)
\* a mutant of ConsumeToken: the batch looks at the user counter again and
\* leaves the store alone when it is at its limit
ConsumeTokenChecked(st, u) ==
    IF st.count[u] # None /\ Val(st.count[u]) >= user_requests
    THEN st
    ELSE RedisExpire(RedisIncr(RedisExpire(RedisIncr(st, u), u, user_window), GlobalKey),
                     GlobalKey, global_window)

\* a mutant of ConsumeToken: the counters are incremented, the expiries not applied
ConsumeTokenNoExpire(st, u) == RedisIncr(RedisIncr(st, u), GlobalKey)

ConsumeToken(st, u) ==
    RedisExpire(
        RedisIncr(
            RedisExpire(RedisIncr(st, u), u, user_window),
            GlobalKey),
        GlobalKey, global_window)

\* RateLimiter.reset_user_limit, rate_limiter.py 76-80
ResetUserLimitStore(st, u) == RedisDelete(st, u)

Store == [count |-> redis_count, ttl |-> redis_ttl]

(***************************************************************************)
(* SpecRL: the tasks of handle_message at the rate limiter                 *)
(***************************************************************************)
\* where a task is when its handling is over: no message yet, the denial replied,
\* past consume_token, or the exception of the limiter left handle_message
RLOver == {"idle", "denied", "consumed", "check_failed", "consume_failed"}

\* the tables before any row, and a caller of the SessionManager that has not called
NoOp == [op |-> "none"]
EmptyDB == db_messages = << >> /\ db_sessions = << >> /\ now = 0
NoCaller == cw = None /\ last_op = NoOp /\ ops = 0 /\ ties = 0

\* no handler running, nothing cached, no user known
NoMsg == [chat_id |-> 0]
NoTx == [users |-> {}, sessions |-> << >>]
GroupChat == NumUsers + 1
\* the chats of the model: one group every user writes in, and the private chat
\* of the first user (a private chat has the id of its user)
PrivateChats == {1}
Chats == PrivateChats \cup {GroupChat}
NoHandler ==
    /\ db_users = {}
    /\ session_seq = 0
    /\ session_cache = [c \in Chats |-> None]
    /\ h_pc = "idle"
    /\ h_msg = NoMsg
    /\ tx = NoTx
    /\ user_session = None
    /\ context_messages = None
    /\ response_text = None
    /\ h_tokens = None
    /\ replies = << >>
    /\ raised = FALSE
    /\ model_calls = 0
    /\ tool_calls = 0
    /\ saved_at = None
    /\ updates = 0
    /\ faults = 0

\* no tool round running
NoRound ==
    /\ h_response = None
    /\ tool_results_list = << >>
    /\ executed = << >>
    /\ call_tools = << >>
    /\ sent = << >>

\* the gateway before any call: the breaker is closed
NoGateway ==
    /\ gw_pc = "idle"
    /\ gw_tools = << >>
    /\ gw_calls = 0
    /\ attempt_number = 0
    /\ invocations = 0
    /\ elapsed = 0
    /\ gw_clock = 0
    /\ cb_state = "closed"
    /\ cb_failure_count = 0
    /\ cb_opened = 0
    /\ requests = << >>
    /\ responses = << >>
    /\ generate_result = None
    /\ last_error = None
    /\ gw_outcome = None
    /\ consecutive_failures = 0
    /\ rejected = 0
    /\ trial_calls = 0

\* no call at the breaker
NoBreakerCallers ==
    /\ hb_pc = [p \in Procs |-> "idle"]
    /\ hb_trial = [p \in Procs |-> FALSE]
    /\ hb_calls = 0

\* handlers.py 40: no chat awaits a prompt
NoPending ==
    /\ waiting_for_prompt = [c \in 1..(NumUsers + 1) |-> NoUser]
    /\ wp_last = NoOp
    /\ wp_ops = 0

\* no caller of update_context, no transaction open
NoDurability ==
    /\ du_pc = "idle"
    /\ flushed = << >>
    /\ returned_turns = << >>

\* nothing normalised, no plugin registered, no prompt set
NoExt ==
    /\ nm_data = None
    /\ nm_reply = None
    /\ nm_text = None
    /\ mcps = {}
    /\ mgr_tool_registry = {}
    /\ mgr_last = NoOp
    /\ mgr_ops = 0
    /\ custom_system_prompt = None
    /\ sp_messages = << >>
    /\ sp_ops = 0
    /\ NoDurability
    /\ NoBreakerCallers
    /\ NoPending

\* what the rate limiter never touches
vars_not_rl == <<vars_db, vars_cw, vars_store, vars_h, vars_tr, vars_gw, vars_ext>>

\* the store and the tasks before any message
NoTraffic ==
    /\ redis_count = [k \in Keys |-> None]
    /\ redis_ttl = [k \in Keys |-> -2]
    /\ rl_pc = [p \in Procs |-> "idle"]
    /\ rl_user = [p \in Procs |-> NoUser]
    /\ ttl = [p \in Procs |-> None]
    /\ rl_result = [p \in Procs |-> NoResult]
    /\ arrived = 0

InitRL == NoTraffic /\ EmptyDB /\ NoCaller /\ NoHandler /\ NoRound /\ NoGateway /\ NoExt

\* the limiter gives r (a returned pair or the exception) and the handler goes on at `at`
RLReturn(p, r, at) ==
    /\ rl_result' = [rl_result EXCEPT ![p] = r]
    /\ rl_pc' = [rl_pc EXCEPT ![p] = at]
    /\ rl_user' = [rl_user EXCEPT ![p] = IF at \in RLOver THEN NoUser ELSE @]

\* handlers.py 299: a message of user u arrives and check_limit(u) is entered;
\* rate_limiter.py 43-45: user_count = await redis.get(user_key), the first command
\* the task sends, which replies or fails
RLGetUser(p, u) ==
    /\ rl_pc[p] \in RLOver
    /\ arrived < MaxMessages
    /\ arrived' = arrived + 1
    /\ ttl' = [ttl EXCEPT ![p] = None]
    /\ \E failed \in BOOLEAN :
          IF failed
          THEN /\ rl_result' = [rl_result EXCEPT ![p] = OnStoreError]
               /\ rl_pc' = [rl_pc EXCEPT ![p] = "check_failed"]
               /\ rl_user' = [rl_user EXCEPT ![p] = NoUser]
          ELSE /\ rl_result' = [rl_result EXCEPT ![p] = NoResult]
               /\ rl_pc' = [rl_pc EXCEPT ![p] =
                               IF AtLimit(RedisGet(redis_count, u), user_requests)
                               THEN "ttl_user" ELSE "get_global"]
               /\ rl_user' = [rl_user EXCEPT ![p] = u]
    /\ UNCHANGED <<redis_count, redis_ttl>>

\* rate_limiter.py 46-47: ttl = await redis.ttl(user_key); return False, ...
\* handlers.py 300-304: the throttling reply
RLTtlUser(p) ==
    /\ rl_pc[p] = "ttl_user"
    /\ ttl' = [ttl EXCEPT ![p] = Some(RedisTtl(redis_count, redis_ttl, rl_user[p]))]
    /\ RLReturn(p, [kind |-> "returned", allowed |-> FALSE,
                    retry_after |-> Denial(Val(ttl'[p]), user_window)],
                "denied")
    /\ UNCHANGED <<redis_count, redis_ttl, arrived>>

\* rate_limiter.py 51-53: global_count = await redis.get(global_key);
\* rate_limiter.py 57: return True, None
RLGetGlobal(p) ==
    /\ rl_pc[p] = "get_global"
    /\ IF AtLimit(RedisGet(redis_count, GlobalKey), global_requests)
       THEN /\ rl_pc' = [rl_pc EXCEPT ![p] = "ttl_global"]
            /\ UNCHANGED <<rl_result, rl_user>>
       ELSE RLReturn(p, [kind |-> "returned", allowed |-> TRUE, retry_after |-> None],
                     "consume")
    /\ UNCHANGED <<redis_count, redis_ttl, ttl, arrived>>

\* rate_limiter.py 54-55: ttl = await redis.ttl(global_key); return False, ...
\* handlers.py 300-304: the throttling reply
RLTtlGlobal(p) ==
    /\ rl_pc[p] = "ttl_global"
    /\ ttl' = [ttl EXCEPT ![p] = Some(RedisTtl(redis_count, redis_ttl, GlobalKey))]
    /\ RLReturn(p, [kind |-> "returned", allowed |-> FALSE,
                    retry_after |-> Denial(Val(ttl'[p]), global_window)],
                "denied")
    /\ UNCHANGED <<redis_count, redis_ttl, arrived>>

\* handlers.py 307: await self.rate_limiter.consume_token(user.id)
RLConsume(p) ==
    /\ rl_pc[p] = "consume"
    /\ LET st == ConsumeToken(Store, rl_user[p]) IN
          /\ redis_count' = st.count
          /\ redis_ttl' = st.ttl
    /\ rl_pc' = [rl_pc EXCEPT ![p] = "consumed"]
    /\ rl_user' = [rl_user EXCEPT ![p] = NoUser]
    /\ UNCHANGED <<ttl, rl_result, arrived>>

\* a later redis command of check_limit fails (connection lost, timeout)
RLCheckStoreError(p) ==
    /\ rl_pc[p] \in {"ttl_user", "get_global", "ttl_global"}
    /\ RLReturn(p, OnStoreError, "check_failed")
    /\ UNCHANGED <<redis_count, redis_ttl, ttl, arrived>>

\* pipe.execute() of consume_token fails: before the batch reached the server
\* (nothing applied) or after it (the batch applied, the reply lost)
RLConsumeStoreError(p) ==
    /\ rl_pc[p] = "consume"
    /\ \E applied \in BOOLEAN :
          LET st == IF applied THEN ConsumeToken(Store, rl_user[p]) ELSE Store IN
             /\ redis_count' = st.count
             /\ redis_ttl' = st.ttl
    /\ RLReturn(p, OnStoreError, "consume_failed")
    /\ UNCHANGED <<ttl, arrived>>

\* rate_limiter.py 76-80: reset_user_limit(u), the admin function
RLResetUserLimit(u) ==
    /\ redis_count[u] # None
    /\ LET st == ResetUserLimitStore(Store, u) IN
          /\ redis_count' = st.count
          /\ redis_ttl' = st.ttl
    /\ UNCHANGED <<rl_pc, rl_user, ttl, rl_result, arrived>>

\* one second passes in the store: a key with less than a second left expires
ExpireStep(st) ==
    [count |-> [k \in Keys |-> IF st.ttl[k] = 0 THEN None ELSE st.count[k]],
     ttl   |-> [k \in Keys |-> IF st.ttl[k] = 0 THEN -2
                               ELSE IF st.ttl[k] > 0 THEN st.ttl[k] - 1 ELSE st.ttl[k]]]

RLTick ==
    /\ \E k \in Keys : redis_count[k] # None
    /\ LET st == ExpireStep(Store) IN
          /\ redis_count' = st.count
          /\ redis_ttl' = st.ttl
    /\ UNCHANGED <<rl_pc, rl_user, ttl, rl_result, arrived>>

NextRL ==
    \/ \E p \in Procs, u \in Users : RLGetUser(p, u) /\ UNCHANGED vars_not_rl
    \/ \E p \in Procs : RLTtlUser(p) /\ UNCHANGED vars_not_rl
    \/ \E p \in Procs : RLGetGlobal(p) /\ UNCHANGED vars_not_rl
    \/ \E p \in Procs : RLTtlGlobal(p) /\ UNCHANGED vars_not_rl
    \/ \E p \in Procs : RLConsume(p) /\ UNCHANGED vars_not_rl
    \/ \E p \in Procs : RLCheckStoreError(p) /\ UNCHANGED vars_not_rl
    \/ \E p \in Procs : RLConsumeStoreError(p) /\ UNCHANGED vars_not_rl
    \/ \E u \in Users : RLResetUserLimit(u) /\ UNCHANGED vars_not_rl
    \/ RLTick /\ UNCHANGED vars_not_rl

SpecRL == InitRL /\ [][NextRL]_vars

(***************************************************************************)
(* Claims about the rate limiter, checked under SpecRL                     *)
(***************************************************************************)
\* a counter as the claims read it: a missing counter counts as 0
Count(reply) == IF reply = None THEN 0 ELSE Val(reply)

\* the step in which check_limit of task p returns its pair
CheckReturns(p) == rl_pc[p] \notin RLOver /\ rl_result[p].kind = "none" /\ rl_result'[p].kind = "returned"

\* the steps in which redis.get(user_key) and redis.get(global_key) reply to task p
UserRead(p) == rl_pc[p] \in RLOver /\ rl_pc'[p] \in {"ttl_user", "get_global"}
GlobalRead(p) == rl_pc[p] = "get_global" /\ rl_pc'[p] \in {"ttl_global", "consume"}

\* C1: check_limit returns allowed=true exactly when the user counter it read is
\* below the user limit and the global counter it read is below the global limit
\* (a missing counter counts as 0): the global counter is read only after the user
\* counter was found below its limit, a user counter at its limit leads to the
\* denial without a read of the global counter, and the pair returned says
\* allowed exactly on the path on which both were found below.
C1_AdmissionIffBothBelow ==
    [][\A p \in Procs :
          /\ UserRead(p) =>
                (rl_pc'[p] = "get_global") = (Count(redis_count[rl_user'[p]]) < user_requests)
          /\ GlobalRead(p) =>
                (rl_pc'[p] = "consume") = (Count(redis_count[GlobalKey]) < global_requests)
          /\ rl_pc[p] = "ttl_user" => rl_pc'[p] \in {"ttl_user", "denied", "check_failed"}
          /\ CheckReturns(p) =>
                /\ rl_result'[p].allowed = (rl_pc[p] = "get_global")
                /\ rl_pc'[p] = IF rl_result'[p].allowed THEN "consume" ELSE "denied"]_vars

\* one task was admitted while another was denied
C1_Witness ==
    \E p, q \in Procs :
       /\ rl_result[p].kind = "returned" /\ rl_result[p].allowed
       /\ rl_result[q].kind = "returned" /\ ~rl_result[q].allowed

\* C2: whenever check_limit denies, retry_after is strictly positive: it is the
\* TTL redis reported for the window that caused the denial (the user key when the
\* user counter was at its limit, the global key otherwise) when that TTL is
\* positive, and exactly that window's configured length when it is 0 or less.
C2_RetryAfterPositive ==
    [][\A p \in Procs : (CheckReturns(p) /\ ~rl_result'[p].allowed) =>
          LET byUser == rl_pc[p] = "ttl_user"
              key    == IF byUser THEN rl_user[p] ELSE GlobalKey
              window == IF byUser THEN user_window ELSE global_window
              t      == RedisTtl(redis_count, redis_ttl, key)
              r      == rl_result'[p].retry_after
          IN  /\ r # None
              /\ Val(r) > 0
              /\ (t > 0 => Val(r) = t)
              /\ (t <= 0 => Val(r) = window)]_vars

\* a task was denied on a reported TTL of 0 or less and told the window's length,
\* while another was denied on a positive TTL shorter than the window and told that TTL
C2_Witness ==
    \E p, q \in Procs :
       /\ rl_pc[p] = "denied" /\ ttl[p] # None /\ Val(ttl[p]) <= 0
       /\ rl_result[p].retry_after = Some(user_window)
       /\ rl_pc[q] = "denied" /\ ttl[q] # None /\ Val(ttl[q]) > 0
       /\ Val(ttl[q]) < user_window
       /\ rl_result[q].retry_after = ttl[q]

\* C3: in every reachable state every existing rate counter has an expiry set:
\* no counter exists that never expires.
C3_EveryCounterExpires ==
    \A k \in Keys : redis_count[k] # None => redis_ttl[k] >= 0

\* consume_token has run: a user counter and the global counter exist
C3_Witness ==
    /\ \E p \in Procs : rl_pc[p] = "consumed"
    /\ redis_count[GlobalKey] # None
    /\ \E u \in Users : redis_count[u] # None /\ redis_ttl[u] = user_window

\* C5: when the store fails during check_limit or consume_token the limiter raises:
\* the task holds the exception and no (allowed, retry_after) pair.
C5_StoreErrorPropagates ==
    \A p \in Procs :
       rl_pc[p] \in {"check_failed", "consume_failed"} =>
          rl_result[p].kind = "raised" /\ "allowed" \notin DOMAIN rl_result[p]

\* the store failed under one task in check_limit and under another in consume_token
C5_Witness ==
    \E p, q \in Procs : rl_pc[p] = "check_failed" /\ rl_pc[q] = "consume_failed"


(***************************************************************************)
(* The tables messages and sessions (bot/models.py) and the SessionManager *)
(* (bot/session.py)                                                        *)
(***************************************************************************)
Sessions == 1..NumUsers

\* a row of messages; the table is kept in insertion order, the order of the ids
Row(session_id, role, content, tokens, metadata, created_at) ==
    [session_id |-> session_id, role |-> role, content |-> content,
     tokens |-> tokens, message_metadata |-> metadata, created_at |-> created_at]

\* the positions of the rows of one session
RowIds(table, session_id) ==
    {i \in 1..Len(table) : table[i].session_id = session_id}

\* the rows of one session, in insertion order
TurnsOf(table, session_id) ==
    SelectSeq(table, LAMBDA r : r.session_id = session_id)

Reversed(seq) == [i \in 1..Len(seq) |-> seq[Len(seq) + 1 - i]]

\* ORDER BY created_at DESC: every order the database may give, rows of equal
\* created_at in any order
RECURSIVE OrderByCreatedAtDesc(_, _)
OrderByCreatedAtDesc(table, S) ==
    IF S = {} THEN {<< >>}
    ELSE LET top == {i \in S : \A j \in S : table[j].created_at <= table[i].created_at} IN
         UNION {{<<i>> \o o : o \in OrderByCreatedAtDesc(table, S \ {i})} : i \in top}

\* session.py 148-155: the select of _load_messages, as positions of rows
SelectRecent(table, session_id, limit) ==
    {SubSeq(o, 1, IF Len(o) < limit THEN Len(o) ELSE limit) :
        o \in OrderByCreatedAtDesc(table, RowIds(table, session_id))}

\* session.py 158-166: the Message objects, in reversed order of the result
ToMessages(table, selected) ==
    [i \in 1..Len(selected) |->
        LET msg == table[selected[Len(selected) + 1 - i]] IN
        [role |-> msg.role, content |-> msg.content,
         tokens |-> msg.tokens, metadata |-> msg.message_metadata]]

\* session.py 146-168: _load_messages
LoadMessages(table, session_id, limit) ==
    {ToMessages(table, sel) : sel \in SelectRecent(table, session_id, limit)}

\* session.py 216: msg.tokens or len(msg.content) // 4
MsgTokens(msg) ==
    IF msg.tokens # None /\ Val(msg.tokens) # 0
    THEN Val(msg.tokens)
    ELSE Len(msg.content) \div 4

\* a get_context_window whose loop goes on to the older turns after one that
\* does not fit
RECURSIVE WalkSkipping(_, _, _, _, _)
WalkSkipping(messages, i, total_tokens, max_tokens, context) ==
    IF i = 0 THEN context
    ELSE IF total_tokens + MsgTokens(messages[i]) > max_tokens
         THEN WalkSkipping(messages, i - 1, total_tokens, max_tokens, context)
         ELSE WalkSkipping(messages, i - 1, total_tokens + MsgTokens(messages[i]),
                           max_tokens,
                           <<[role |-> messages[i].role,
                              content |-> messages[i].content]>> \o context)

ContextOfSkipping(messages, max_tokens) ==
    WalkSkipping(messages, Len(messages), 0, max_tokens, << >>)

\* session.py 215-223: the loop over reversed(messages), from messages[i] on
RECURSIVE Walk(_, _, _, _, _)
Walk(messages, i, total_tokens, max_tokens, context) ==
    IF i = 0 THEN context
    ELSE IF total_tokens + MsgTokens(messages[i]) > max_tokens
         THEN context
         ELSE Walk(messages, i - 1, total_tokens + MsgTokens(messages[i]),
                   max_tokens,
                   <<[role |-> messages[i].role,
                      content |-> messages[i].content]>> \o context)

\* session.py 211-225: get_context_window after _load_messages
ContextOf(messages, max_tokens) ==
    Walk(messages, Len(messages), 0, max_tokens, << >>)

\* session.py 180-188: the insert of update_context
UpdateContext(table, session_id, role, content, tokens, metadata, t) ==
    Append(table, Row(session_id, role, content, tokens, metadata, t))

\* a clear_session whose delete has no WHERE
ClearSessionEverywhere(table, session_id) == << >>

\* session.py 232-233: delete(MessageModel).where(session_id == session_id)
ClearSession(table, session_id) ==
    SelectSeq(table, LAMBDA r : r.session_id # session_id)

\* session.py 191-196, 236-241: update(SessionModel).where(id == session_id)
\*                                .values(last_active=utcnow())
TouchSession(sessions, session_id, t) ==
    [i \in 1..Len(sessions) |->
        IF sessions[i].id = session_id THEN [sessions[i] EXCEPT !.last_active = t]
        ELSE sessions[i]]

(***************************************************************************)
(* SpecCW: calls of update_context, clear_session and get_context_window   *)
(* on the tables                                                           *)
(***************************************************************************)
\* the turns the callers write: handlers.py 327-332 (a user turn, no tokens),
\* handlers.py 401-407 (an assistant turn of empty content), handlers.py 544-550
\* (an assistant turn with the tokens the model reported)
TurnKinds ==
    {[role |-> "user", content |-> "12345678", tokens |-> None],
     [role |-> "assistant", content |-> "", tokens |-> None],
     [role |-> "assistant", content |-> "1234", tokens |-> Some(50)]}

\* the max_tokens the callers pass: the default of the configuration and smaller ones
Budgets == {2, 120, max_context_tokens}

\* how many turns session 1 holds at the start
OldCounts == {0, 5, MaxOld}

\* a turn session 1 holds at the start, written at instant i
OldTurn(i) == Row(1, "assistant", "1234", Some(50), None, i)

vars_not_cw == <<vars_rl, vars_store, vars_h, vars_tr, vars_gw, vars_ext>>

InitCW ==
    /\ NoTraffic
    /\ NoCaller
    /\ NoHandler
    /\ NoRound
    /\ NoGateway /\ NoExt
    /\ \E n \in OldCounts :
          /\ db_messages = [i \in 1..n |-> OldTurn(i)]
          /\ now = n
    /\ db_sessions = [s \in Sessions |-> [id |-> s, user_id |-> s, last_active |-> 0]]

\* datetime.utcnow() of a call: the instant of the call before, or a later one
Clock(tie) == IF tie THEN now ELSE now + 1

CWCall(tie) ==
    /\ ops < MaxOps
    /\ tie => ties < MaxTies
    /\ ops' = ops + 1
    /\ ties' = IF tie THEN ties + 1 ELSE ties
    /\ now' = Clock(tie)
    /\ cw' = None

\* session.py 170-201: update_context(session_id, role, content, tokens)
CWUpdateContext(session_id, kind, tie) ==
    /\ CWCall(tie)
    /\ db_messages' = UpdateContext(db_messages, session_id, kind.role, kind.content,
                                    kind.tokens, None, now')
    /\ db_sessions' = TouchSession(db_sessions, session_id, now')
    /\ last_op' = [op |-> "update_context", session_id |-> session_id]

\* session.py 227-241: clear_session(session_id)
CWClearSession(session_id) ==
    /\ CWCall(FALSE)
    /\ db_messages' = ClearSession(db_messages, session_id)
    /\ db_sessions' = TouchSession(db_sessions, session_id, now')
    /\ last_op' = [op |-> "clear_session", session_id |-> session_id,
                   deleted |-> Cardinality(RowIds(db_messages, session_id)),
                   again |-> /\ last_op.op = "clear_session"
                             /\ last_op.session_id = session_id]

\* session.py 203-225: get_context_window(session_id, max_tokens)
CWGetContextWindow(session_id) ==
    /\ \E selected \in SelectRecent(db_messages, session_id, LoadLimit) :
          LET messages == ToMessages(db_messages, selected) IN
          \E max_tokens \in Budgets :
             cw' = Some([session_id |-> session_id, max_tokens |-> max_tokens,
                         selected |-> selected,
                         context |-> ContextOf(messages, max_tokens)])
    /\ UNCHANGED <<vars_db, last_op, ops, ties>>

NextCW ==
    \/ \E s \in Sessions, kind \in TurnKinds, tie \in BOOLEAN :
          CWUpdateContext(s, kind, tie) /\ UNCHANGED vars_not_cw
    \/ \E s \in Sessions :
          CWClearSession(s) /\ UNCHANGED vars_not_cw
    \/ \E s \in Sessions :
          CWGetContextWindow(s) /\ UNCHANGED vars_not_cw

SpecCW == InitCW /\ [][NextCW]_vars

(***************************************************************************)
(* Claims about the turn store, checked under SpecCW                       *)
(***************************************************************************)
RECURSIVE SumTokens(_, _, _)
\* the cost of messages[from..to]
SumTokens(messages, from, to) ==
    IF from > to THEN 0
    ELSE MsgTokens(messages[from]) + SumTokens(messages, from + 1, to)

\* the length of the longest suffix of messages whose cost is within max_tokens
LongestFit(messages, max_tokens) ==
    CHOOSE k \in 0..Len(messages) :
        /\ SumTokens(messages, Len(messages) - k + 1, Len(messages)) <= max_tokens
        /\ \A j \in 0..Len(messages) :
              SumTokens(messages, Len(messages) - j + 1, Len(messages)) <= max_tokens
                  => j <= k

\* selected holds the limit most recent rows of the session, newest first
MostRecent(table, session_id, selected, limit) ==
    LET rows == RowIds(table, session_id)
        sel  == {selected[i] : i \in 1..Len(selected)}
    IN /\ sel \subseteq rows
       /\ Cardinality(sel) = Len(selected)
       /\ Len(selected) = IF Cardinality(rows) < limit THEN Cardinality(rows) ELSE limit
       /\ \A i, j \in 1..Len(selected) :
             i < j => table[selected[i]].created_at >= table[selected[j]].created_at
       /\ \A r \in rows \ sel, i \in sel : table[r].created_at <= table[i].created_at

\* C9: the context window is the longest suffix of the session's 10 most
\* recent turns, in chronological order, whose cost is within the budget;
\* a turn that does not fit ends the window, and the older turns stay out
C9_ContextWindowLongestSuffix ==
    cw # None =>
        LET c        == Val(cw)
            messages == ToMessages(db_messages, c.selected)
            n        == Len(messages)
            k        == LongestFit(messages, c.max_tokens)
        IN /\ MostRecent(db_messages, c.session_id, c.selected, LoadLimit)
           /\ \A i, j \in 1..n :
                 i < j => db_messages[Reversed(c.selected)[i]].created_at
                             <= db_messages[Reversed(c.selected)[j]].created_at
           /\ Len(c.context) = k
           /\ \A j \in 1..k :
                 c.context[j] = [role |-> messages[n - k + j].role,
                                 content |-> messages[n - k + j].content]

\* five turns of cost 50 under a budget of 120 give the two newest
C9_Witness ==
    /\ cw # None
    /\ Val(cw).max_tokens = 120
    /\ Len(Val(cw).selected) = 5
    /\ \A i \in 1..5 : MsgTokens(db_messages[Val(cw).selected[i]]) = 50
    /\ Len(Val(cw).context) = 2

\* C10: clear_session leaves the session without turns, also when it had
\* none and when it is called twice in a row, and it leaves the turns of
\* every other session as they were
C10_ClearSessionIdempotent ==
    [][\A s \in Sessions :
          (ops' = ops + 1 /\ last_op'.op = "clear_session" /\ last_op'.session_id = s) =>
              /\ TurnsOf(db_messages', s) = << >>
              /\ ClearSession(db_messages', s) = db_messages'
              /\ \A o \in Sessions \ {s} :
                    TurnsOf(db_messages', o) = TurnsOf(db_messages, o)]_vars

\* a second clear_session in a row found nothing to delete, while another
\* session holds turns
C10_Witness ==
    /\ last_op.op = "clear_session"
    /\ last_op.again
    /\ last_op.deleted = 0
    /\ \E o \in Sessions \ {last_op.session_id} : RowIds(db_messages, o) # {}

\* C29: within a session the turns are read back in the order in which they
\* were appended, also when two of them carry the same created_at: the rows
\* _load_messages selected are the most recently inserted ones of the
\* session, and reversed they stand in insertion order
C29_ReadOrderIsAppendOrder ==
    cw # None =>
        LET selected == Val(cw).selected
            rows     == RowIds(db_messages, Val(cw).session_id)
            sel      == {selected[i] : i \in 1..Len(selected)}
        IN /\ \A i, j \in 1..Len(selected) : i < j => selected[i] > selected[j]
           /\ \A r \in rows \ sel, i \in sel : r < i

(***************************************************************************)
(* The race of check_limit and consume_token, checked under SpecRL         *)
(***************************************************************************)
\* the step in which consume_token of task p is applied and returns
Consumes(p) == rl_pc[p] = "consume" /\ rl_pc'[p] = "consumed"

\* C26: check_limit and consume_token are not atomic with each other:
\* consume_token does not look at the limit again, it adds one to the user
\* counter and to the global counter whatever they have become since the
\* task's check_limit passed, so that tasks which passed the check together
\* take a counter past its limit, by at most one for each further task
C26_CheckThenConsumeRace ==
    /\ [][\A p \in Procs : Consumes(p) =>
             /\ Count(redis_count'[rl_user[p]]) = Count(redis_count[rl_user[p]]) + 1
             /\ Count(redis_count'[GlobalKey]) = Count(redis_count[GlobalKey]) + 1]_vars
    /\ [](\A u \in Users : Count(redis_count[u]) <= user_requests + NumProcs - 1)
    /\ [](Count(redis_count[GlobalKey]) <= global_requests + NumProcs - 1)

\* two tasks were admitted and both have consumed: the counter of a user
\* stands at limit+1
C26_Witness ==
    \E u \in Users, p, q \in Procs :
       /\ p # q
       /\ rl_pc[p] = "consumed" /\ rl_pc[q] = "consumed"
       /\ rl_result[p].kind = "returned" /\ rl_result[p].allowed
       /\ rl_result[q].kind = "returned" /\ rl_result[q].allowed
       /\ Count(redis_count[u]) = user_requests + 1

\* the tasks in flight whose check_limit saw the counter of user u below its
\* limit, and those whose check_limit returned allowed, before their consume_token
PassedUser(u) == {p \in Procs : rl_user[p] = u /\ rl_pc[p] \in {"get_global", "ttl_global", "consume"}}
Admitted == {p \in Procs : rl_pc[p] = "consume"}

\* C35: with NumProcs handlers in flight a rate counter is never more than
\* NumProcs - 1 above its limit: a task is at consume_token only after its
\* check_limit returned allowed, and a counter together with the tasks that
\* passed its check and have not consumed yet stays within limit + NumProcs - 1
C35_OvershootBounded ==
    /\ \A p \in Admitted : rl_result[p].kind = "returned" /\ rl_result[p].allowed
    /\ \A u \in Users :
          Count(redis_count[u]) + Cardinality(PassedUser(u)) <= user_requests + NumProcs - 1
    /\ Count(redis_count[GlobalKey]) + Cardinality(Admitted)
          <= global_requests + NumProcs - 1

\* every task has consumed and the global counter stands NumProcs - 1 above
\* its limit
C35_Witness ==
    /\ \A p \in Procs : rl_pc[p] = "consumed"
    /\ Count(redis_count[GlobalKey]) = global_requests + NumProcs - 1

\* main.py 88-92: the Application is built without concurrent_updates: an
\* update is taken when the handler of the one before has returned, by the one
\* task of the dispatcher
OneAtATime == \A q \in Procs : rl_pc[q] \in RLOver

NextRLFair ==
    \/ \E u \in Users :
          OneAtATime /\ RLGetUser(1, u) /\ UNCHANGED vars_not_rl
    \/ \E p \in Procs : RLTtlUser(p) /\ UNCHANGED vars_not_rl
    \/ \E p \in Procs : RLGetGlobal(p) /\ UNCHANGED vars_not_rl
    \/ \E p \in Procs : RLTtlGlobal(p) /\ UNCHANGED vars_not_rl
    \/ \E p \in Procs : RLConsume(p) /\ UNCHANGED vars_not_rl
    \/ \E p \in Procs : RLCheckStoreError(p) /\ UNCHANGED vars_not_rl
    \/ \E p \in Procs : RLConsumeStoreError(p) /\ UNCHANGED vars_not_rl
    \/ \E u \in Users : RLResetUserLimit(u) /\ UNCHANGED vars_not_rl
    \/ RLTick /\ UNCHANGED vars_not_rl

\* the limiter under the dispatcher of the Application, with a store that goes
\* on expiring its keys: time passes while a counter exists
SpecRLFair ==
    InitRL /\ [][NextRLFair]_vars /\ WF_vars(RLTick /\ UNCHANGED vars_not_rl)

\* the limit of the counter of key k
LimitOf(k) == IF k = GlobalKey THEN global_requests ELSE user_requests

\* the step in which check_limit of task p returns a denial
Denies(p) == rl_pc[p] \in {"ttl_user", "ttl_global"} /\ rl_pc'[p] = "denied"

\* C39: a denial is not for ever: a denied check_limit leaves every counter
\* and every expiry as it was, and with a store that expires its keys a
\* counter that stands at its limit is below its limit again later
C39_DeniedEventuallyAdmitted ==
    /\ [][\A p \in Procs : Denies(p) => UNCHANGED <<redis_count, redis_ttl>>]_vars
    /\ \A k \in Keys :
          AtLimit(redis_count[k], LimitOf(k)) ~> ~AtLimit(redis_count[k], LimitOf(k))

\* a task was denied and the counter that denied it has expired since
C39_Witness ==
    \E p \in Procs :
       /\ rl_pc[p] = "denied"
       /\ rl_result[p].retry_after # None
       /\ \A k \in Keys : redis_count[k] = None

\* a counter lives on: its key exists before and after the step
Lives(k) == redis_count[k] # None /\ redis_count'[k] # None

\* C27: within a window a counter never decreases, and it resets once the
\* window length has elapsed since the window began, also under steady
\* traffic: while a counter lives it does not go down, and the time left until
\* its key expires does not go up (the end of the window is fixed when the
\* window begins)
C27_WindowEndsOnceElapsed ==
    [][\A k \in Keys : Lives(k) =>
          /\ Val(redis_count'[k]) >= Val(redis_count[k])
          /\ redis_ttl'[k] <= redis_ttl[k]]_vars

(***************************************************************************)
(* Spec: the dispatcher hands the updates to handle_message and            *)
(* reset_command one at a time (main.py 88-92: the Application is built    *)
(* without concurrent_updates)                                             *)
(***************************************************************************)
ChatType(chat_id) == IF chat_id = GroupChat THEN "group" ELSE "private"

\* the text of a message: one text for each chat and sender
Text(chat_id, user) == "c" \o ToString(chat_id) \o "u" \o ToString(user)

\* what the model answers: an object with a text and its usage, or a bare
\* string without text
ModelReplies == {[content |-> "answer", tokens |-> Some(50)],
                 [content |-> "", tokens |-> None]}

\* handlers.py 388: the answer when every tool call failed
ToolsUnavailable == "tools unavailable"

\* an await raises
Fault ==
    /\ faults < MaxFaults
    /\ faults' = faults + 1

\* the steps of handle_message inside its try block (handlers.py 317-610)
HTry == {"get_session", "update_context", "process_message", "handle_tool_calls",
         "synthesis", "save_response"}

\* session.py 74-76: the select ordered by last_active desc, .first()
LatestSessions(sessions, user_id) ==
    {i \in 1..Len(sessions) :
        /\ sessions[i].user_id = user_id
        /\ \A j \in 1..Len(sessions) :
              sessions[j].user_id = user_id
                  => sessions[j].last_active <= sessions[i].last_active}

\* session.py 93-106: the UserSession, as returned and as cached
NewUserSession(user_id, session_id) == [user_id |-> user_id, session_id |-> session_id]

\* session.py 59-108: get_session(user_id, telegram_id); the callers pass the
\* chat id as user_id. Gives every outcome: the UserSession, what is flushed, the
\* sequence and the cache afterwards
GetSession(user_id, telegram_id) ==
    IF session_cache[user_id] # None
    THEN {[user_session |-> Val(session_cache[user_id]), tx |-> tx,
           session_seq |-> session_seq, session_cache |-> session_cache]}
    ELSE LET new_users == IF telegram_id \in db_users THEN {} ELSE {telegram_id}
             found     == LatestSessions(db_sessions, telegram_id)
             created   == NewUserSession(telegram_id, session_seq + 1)
         IN IF found = {}
            THEN {[user_session |-> created,
                   tx |-> [users |-> tx.users \cup new_users,
                           sessions |-> Append(tx.sessions,
                                               [id |-> session_seq + 1,
                                                user_id |-> telegram_id,
                                                last_active |-> now])],
                   session_seq |-> session_seq + 1,
                   session_cache |-> [session_cache EXCEPT ![user_id] = Some(created)]]}
            ELSE {[user_session |-> NewUserSession(telegram_id, db_sessions[i].id),
                   tx |-> [users |-> tx.users \cup new_users, sessions |-> tx.sessions],
                   session_seq |-> session_seq,
                   session_cache |->
                       [session_cache EXCEPT ![user_id] =
                           Some(NewUserSession(telegram_id, db_sessions[i].id))]]
                  : i \in found}

\* the foreign key messages.session_id -> sessions.id
SessionExists(sessions, session_id) ==
    \E i \in 1..Len(sessions) : sessions[i].id = session_id

\* a handler that consumes the token before it looks at the verdict
OnDeniedConsume(st, u) == ConsumeToken(st, u)

\* handlers.py 299-304: on denial the handler replies and returns, the store as it was
OnDenied(st, u) == st

\* the handler takes up an update
Fresh(msg) ==
    /\ h_msg' = msg
    /\ updates' = updates + 1
    /\ tx' = NoTx
    /\ user_session' = None
    /\ context_messages' = None
    /\ response_text' = None
    /\ h_tokens' = None
    /\ model_calls' = 0
    /\ tool_calls' = 0
    /\ saved_at' = None

\* a handler that takes up every message of a group
IsProcessedAlways(chat_type, is_addressed) == TRUE

\* handlers.py 291-295: outside a group every message is processed, in a group
\* or supergroup only a message that addresses the bot
IsProcessed(chat_type, is_addressed) ==
    chat_type \in {"group", "supergroup"} => is_addressed

\* handlers.py 158-296: a text message arrives; in a group the handler returns
\* unless the bot is addressed
HArrive(chat_id, user, addressed) ==
    /\ h_pc = "idle"
    /\ UNCHANGED faults
    /\ updates < MaxUpdates
    /\ chat_id \in PrivateChats => chat_id = user
    /\ ChatType(chat_id) = "private" => addressed
    /\ Fresh([chat_id |-> chat_id, user |-> user,
              message_text |-> Text(chat_id, user), addressed |-> addressed])
    /\ replies' = << >>
    /\ raised' = FALSE
    /\ h_pc' = IF IsProcessed(ChatType(chat_id), addressed) THEN "check_limit" ELSE "done"
    /\ UNCHANGED <<redis_count, redis_ttl, vars_db, vars_store>>

\* handlers.py 299-304: check_limit, and on denial the throttling reply
HCheckLimit ==
    /\ h_pc = "check_limit"
    /\ LET r == CheckLimit(redis_count, redis_ttl, h_msg.user) IN
          IF r.allowed
          THEN /\ h_pc' = "consume_token"
               /\ UNCHANGED <<redis_count, redis_ttl, replies>>
          ELSE /\ h_pc' = "done"
               /\ replies' = Append(replies, "throttle")
               /\ redis_count' = OnDenied(Store, h_msg.user).count
               /\ redis_ttl' = OnDenied(Store, h_msg.user).ttl
    /\ UNCHANGED <<vars_db, vars_store, h_msg, tx, user_session, context_messages,
                   response_text, h_tokens, raised, model_calls, tool_calls, saved_at, updates, faults>>

\* handlers.py 307: consume_token
HConsumeToken ==
    /\ h_pc = "consume_token"
    /\ redis_count' = ConsumeToken(Store, h_msg.user).count
    /\ redis_ttl' = ConsumeToken(Store, h_msg.user).ttl
    /\ h_pc' = "get_session"
    /\ UNCHANGED <<vars_db, vars_store, h_msg, tx, user_session, context_messages,
                   response_text, h_tokens, replies, raised, model_calls, tool_calls, saved_at,
                   updates, faults>>

\* handlers.py 299, 307: a redis command of the rate limiter fails; the calls
\* stand before the try block, the exception leaves handle_message
HRateLimiterError ==
    /\ Fault
    /\ h_pc \in {"check_limit", "consume_token"}
    /\ \E applied \in BOOLEAN :
          /\ applied => h_pc = "consume_token"
          /\ LET st == IF applied THEN ConsumeToken(Store, h_msg.user) ELSE Store IN
                /\ redis_count' = st.count
                /\ redis_ttl' = st.ttl
    /\ raised' = (OnStoreError.kind = "raised")
    /\ h_pc' = IF raised' THEN "done" ELSE "get_session"
    /\ UNCHANGED <<vars_db, vars_store, h_msg, tx, user_session, context_messages,
                   response_text, h_tokens, replies, model_calls, tool_calls, saved_at, updates>>

\* handlers.py 320-324: the database session is opened, get_session(chat_id, user.id)
HGetSession ==
    /\ h_pc = "get_session"
    /\ \E g \in GetSession(h_msg.chat_id, h_msg.user) :
          /\ user_session' = Some(g.user_session)
          /\ tx' = g.tx
          /\ session_seq' = g.session_seq
          /\ session_cache' = g.session_cache
    /\ h_pc' = "update_context"
    /\ UNCHANGED <<redis_count, redis_ttl, vars_db, db_users, h_msg, context_messages,
                   response_text, h_tokens, replies, raised, model_calls, tool_calls, saved_at,
                   updates, faults>>

\* a handler that commits the user turn only with the answer
CommitLater(table, rows) == table

\* db.commit(): the flushed rows reach the table
Commit(table, rows) == table \o rows

\* handlers.py 327-334: update_context of the user turn, db.commit()
HSaveUserTurn ==
    /\ h_pc = "update_context"
    /\ SessionExists(db_sessions \o tx.sessions, Val(user_session).session_id)
    /\ now' = now + 1
    /\ db_users' = db_users \cup tx.users
    /\ db_sessions' = TouchSession(Commit(db_sessions, tx.sessions),
                                   Val(user_session).session_id, now')
    /\ db_messages' = Commit(db_messages,
                             UpdateContext(<< >>, Val(user_session).session_id, "user",
                                           h_msg.message_text, None,
                                           Some(ChatType(h_msg.chat_id)), now'))
    /\ tx' = NoTx
    /\ saved_at' = Some(now')
    /\ h_pc' = "process_message"
    /\ UNCHANGED <<redis_count, redis_ttl, session_seq, session_cache, h_msg,
                   user_session, context_messages, response_text, h_tokens, replies, raised,
                   model_calls, tool_calls, updates, faults>>

\* handlers.py 337-378, 464-528: get_context_window(session_id), then
\* process_message with the context; the model answers with a text or asks for a tool
HProcessMessage ==
    /\ h_pc = "process_message"
    /\ \E selected \in SelectRecent(db_messages, Val(user_session).session_id, LoadLimit) :
          context_messages' = Some(ContextOf(ToMessages(db_messages, selected),
                                             max_context_tokens))
    /\ model_calls' = model_calls + 1
    /\ \/ /\ \E response \in ModelReplies :
                /\ response_text' = Some(response.content)
                /\ h_tokens' = response.tokens
          /\ h_pc' = "save_response"
       \/ /\ h_pc' = "handle_tool_calls"
          /\ h_tokens' = Some(50)
          /\ UNCHANGED response_text
    /\ UNCHANGED <<redis_count, redis_ttl, vars_db, vars_store, h_msg, tx, user_session,
                   replies, raised, tool_calls, saved_at, updates, faults>>

\* handlers.py 378-439: _handle_tool_calls of one tool; when it failed, the fixed
\* answer; when it gave a result, the tool-call turn and the tool turn are saved
\* and committed and go into the context
HToolCalls ==
    /\ h_pc = "handle_tool_calls"
    /\ tool_calls' = tool_calls + 1
    /\ \E has_successful_results \in BOOLEAN :
          IF has_successful_results
          THEN /\ now' = now + 2
               /\ db_messages' =
                     Commit(db_messages,
                            UpdateContext(
                                UpdateContext(<< >>, Val(user_session).session_id,
                                              "assistant", "", None,
                                              Some("tool_calls"), now + 1),
                                Val(user_session).session_id, "tool", "result", None,
                                Some("tool_name"), now + 2))
               /\ db_sessions' = TouchSession(db_sessions,
                                              Val(user_session).session_id, now + 2)
               /\ context_messages' =
                     Some(Val(context_messages)
                          \o <<[role |-> "assistant", content |-> ""],
                               [role |-> "tool", content |-> "result"]>>)
               /\ h_pc' = "synthesis"
               /\ UNCHANGED response_text
          ELSE /\ response_text' = Some(ToolsUnavailable)
               /\ h_pc' = "save_response"
               /\ UNCHANGED <<vars_db, context_messages>>
    /\ UNCHANGED <<redis_count, redis_ttl, vars_store, h_msg, tx, user_session, h_tokens,
                   replies, raised, model_calls, saved_at, updates, faults>>

\* handlers.py 442-463: the second process_message, without tools
HSynthesis ==
    /\ h_pc = "synthesis"
    /\ model_calls' = model_calls + 1
    /\ \E final_response \in ModelReplies : response_text' = Some(final_response.content)
    /\ h_pc' = "save_response"
    /\ UNCHANGED <<redis_count, redis_ttl, vars_db, vars_store, h_msg, tx, user_session,
                   context_messages, h_tokens, replies, raised, tool_calls, saved_at,
                   updates, faults>>

\* str.strip() of a text leaves nothing: the text is empty or only blanks
IsBlank(text) == \A i \in 1..Len(text) : SubSeq(text, i, i) = " "

\* the reply for a response text: handlers.py 555-556 (the answer) or 593 (the
\* notice of an empty answer)
ReplyFor(text) == IF ~IsBlank(text) THEN "answer" ELSE "empty"

\* handlers.py 530-595: update_context of the assistant turn, db.commit(), and
\* the answer is sent
HSaveResponse ==
    /\ h_pc = "save_response"
    /\ now' = now + 1
    /\ db_messages' = Commit(db_messages,
                             UpdateContext(<< >>, Val(user_session).session_id,
                                           "assistant", Val(response_text), h_tokens,
                                           Some("tool_called"), now'))
    /\ db_sessions' = TouchSession(db_sessions, Val(user_session).session_id, now')
    /\ replies' = Append(replies, ReplyFor(Val(response_text)))
    /\ h_pc' = "done"
    /\ UNCHANGED <<redis_count, redis_ttl, vars_store, h_msg, tx, user_session,
                   context_messages, response_text, h_tokens, raised, model_calls,
                   tool_calls, saved_at, updates, faults>>

\* handlers.py 611-618: an await inside the try block raises; the database session
\* is left without commit, the handler sends the fixed apology
HException ==
    /\ Fault
    /\ h_pc \in HTry
    /\ tx' = NoTx
    /\ replies' = Append(replies, "apology")
    /\ h_pc' = "done"
    /\ UNCHANGED <<redis_count, redis_ttl, vars_db, vars_store, h_msg, user_session,
                   context_messages, response_text, h_tokens, raised, model_calls, tool_calls,
                   saved_at, updates>>

\* handlers.py 127-144: reset_command: get_session(chat_id, user.id),
\* clear_session, db.commit(), the reply
HReset(chat_id, user) ==
    /\ h_pc = "idle"
    /\ UNCHANGED faults
    /\ updates < MaxUpdates
    /\ chat_id \in PrivateChats => chat_id = user
    /\ Fresh([chat_id |-> chat_id, user |-> user, message_text |-> "/reset",
              addressed |-> TRUE])
    /\ now' = now + 1
    /\ \E g \in GetSession(chat_id, user) :
          /\ session_seq' = g.session_seq
          /\ session_cache' = g.session_cache
          /\ db_users' = db_users \cup g.tx.users
          /\ db_sessions' = TouchSession(Commit(db_sessions, g.tx.sessions),
                                         g.user_session.session_id, now')
          /\ db_messages' = ClearSession(db_messages, g.user_session.session_id)
    /\ replies' = <<"reset">>
    /\ raised' = FALSE
    /\ h_pc' = "done"
    /\ UNCHANGED <<redis_count, redis_ttl>>

\* reset_command has no try block: an await of it raises, nothing is committed
\* and nothing is replied; get_session may have cached the session before
HResetError(chat_id, user) ==
    /\ h_pc = "idle"
    /\ Fault
    /\ updates < MaxUpdates
    /\ chat_id \in PrivateChats => chat_id = user
    /\ Fresh([chat_id |-> chat_id, user |-> user, message_text |-> "/reset",
              addressed |-> TRUE])
    /\ \E cached \in BOOLEAN :
          IF cached
          THEN \E g \in GetSession(chat_id, user) :
                  /\ session_seq' = g.session_seq
                  /\ session_cache' = g.session_cache
          ELSE UNCHANGED <<session_seq, session_cache>>
    /\ replies' = << >>
    /\ raised' = TRUE
    /\ h_pc' = "done"
    /\ UNCHANGED <<redis_count, redis_ttl, vars_db, db_users>>

\* the handler returns to the dispatcher, its locals are gone
HReturn ==
    /\ h_pc = "done"
    /\ h_pc' = "idle"
    /\ h_msg' = NoMsg
    /\ tx' = NoTx
    /\ user_session' = None
    /\ context_messages' = None
    /\ response_text' = None
    /\ h_tokens' = None
    /\ replies' = << >>
    /\ raised' = FALSE
    /\ model_calls' = 0
    /\ tool_calls' = 0
    /\ saved_at' = None
    /\ UNCHANGED <<redis_count, redis_ttl, vars_db, vars_store, updates, faults>>

\* session.py 102-106: the cached session lives 300 seconds; they pass
HCacheExpire(chat_id) ==
    /\ h_pc = "idle"
    /\ session_cache[chat_id] # None
    /\ session_cache' = [session_cache EXCEPT ![chat_id] = None]
    /\ UNCHANGED <<redis_count, redis_ttl, vars_db, db_users, session_seq, vars_h>>

\* rate_limiter.py 67, 72: no message for a whole window: every counter expires
HWindowPasses ==
    /\ h_pc = "idle"
    /\ \E k \in Keys : redis_count[k] # None
    /\ redis_count' = [k \in Keys |-> None]
    /\ redis_ttl' = [k \in Keys |-> -2]
    /\ UNCHANGED <<vars_db, vars_store, vars_h>>

\* what the handlers never touch
vars_not_h == <<rl_pc, rl_user, ttl, rl_result, arrived, vars_cw, vars_tr, vars_gw, vars_ext>>

Init == NoTraffic /\ EmptyDB /\ NoCaller /\ NoHandler /\ NoRound /\ NoGateway /\ NoExt

Next ==
    \/ \E c \in Chats, u \in Users, addressed \in BOOLEAN :
          HArrive(c, u, addressed) /\ UNCHANGED vars_not_h
    \/ HCheckLimit /\ UNCHANGED vars_not_h
    \/ HConsumeToken /\ UNCHANGED vars_not_h
    \/ HRateLimiterError /\ UNCHANGED vars_not_h
    \/ HGetSession /\ UNCHANGED vars_not_h
    \/ HSaveUserTurn /\ UNCHANGED vars_not_h
    \/ HProcessMessage /\ UNCHANGED vars_not_h
    \/ HToolCalls /\ UNCHANGED vars_not_h
    \/ HSynthesis /\ UNCHANGED vars_not_h
    \/ HSaveResponse /\ UNCHANGED vars_not_h
    \/ HException /\ UNCHANGED vars_not_h
    \/ \E c \in Chats, u \in Users : HReset(c, u) /\ UNCHANGED vars_not_h
    \/ \E c \in Chats, u \in Users : HResetError(c, u) /\ UNCHANGED vars_not_h
    \/ HReturn /\ UNCHANGED vars_not_h
    \/ \E c \in Chats : HCacheExpire(c) /\ UNCHANGED vars_not_h
    \/ HWindowPasses /\ UNCHANGED vars_not_h

Spec == Init /\ [][Next]_vars

\* the message in the handler's hands came from a group and does not address the bot
Unaddressed(msg) ==
    /\ msg # NoMsg
    /\ ChatType(msg.chat_id) \in {"group", "supergroup"}
    /\ ~msg.addressed

DenialStep == replies' = Append(replies, "throttle")

\* C4: when admission is denied, handling the message changes nothing but
\* the throttling reply: no token is consumed, no turn is persisted, no
\* session or user is created or cached, no model call and no tool call is
\* made, and the handling is over
C4_DenialChangesNothing ==
    [][/\ (/\ h_pc = "check_limit"
           /\ ~CheckLimit(redis_count, redis_ttl, h_msg.user).allowed
           /\ faults' = faults) => DenialStep
       /\ DenialStep =>
             /\ ~CheckLimit(redis_count, redis_ttl, h_msg.user).allowed
             /\ UNCHANGED <<redis_count, redis_ttl>>
             /\ UNCHANGED <<db_messages, db_sessions, db_users, session_seq,
                            session_cache>>
             /\ replies = << >>
             /\ model_calls' = 0 /\ tool_calls' = 0
             /\ user_session' = None /\ tx' = NoTx /\ saved_at' = None
             /\ h_pc' = "done"]_vars

\* a message was denied while the store holds turns of earlier messages
C4_Witness ==
    /\ h_pc = "done"
    /\ replies = <<"throttle">>
    /\ db_messages # << >>
    /\ redis_count[h_msg.user] = Some(user_requests)

\* C6: every processed message (private, or addressed in a group) is
\* answered with at least one reply, and no exception leaves handle_message,
\* whichever collaborator fails
C6_AlwaysAReply ==
    (h_pc = "done" /\ h_msg.message_text # "/reset" /\ h_msg.addressed)
        => (Len(replies) >= 1 /\ ~raised)

\* the user turn of the update in hand is a row of the committed table
UserTurnStored ==
    /\ saved_at # None
    /\ user_session # None
    /\ \E i \in 1..Len(db_messages) :
          /\ db_messages[i].session_id = Val(user_session).session_id
          /\ db_messages[i].role = "user"
          /\ db_messages[i].content = h_msg.message_text
          /\ db_messages[i].created_at = Val(saved_at)

\* C7: the user turn of an admitted message is committed before the first
\* model call is issued, and it stays stored until the handling ends, also
\* when the model call, the tool round or a later save fails
C7_UserTurnCommittedFirst ==
    [][/\ model_calls' > model_calls => UserTurnStored
       /\ (saved_at # None /\ h_pc' # "idle") => UserTurnStored']_vars

\* the model was called, a later step failed and was answered with the apology,
\* and the user turn is stored
C7_Witness ==
    /\ h_pc = "done"
    /\ model_calls >= 1
    /\ replies = <<"apology">>
    /\ UserTurnStored

\* the chat a message text was written in
ChatOfText(text) == CHOOSE c \in Chats : \E u \in Users : Text(c, u) = text

UserTurns == {i \in 1..Len(db_messages) : db_messages[i].role = "user"}

\* C8: the session is scoped to the chat: the user turns written in one chat
\* are rows of one session, whoever wrote them and whether or not the session
\* was cached, and the context built for a message holds the stored turns of
\* the others in the chat
C8_SessionScopedToChat ==
    /\ \A i, j \in UserTurns :
          ChatOfText(db_messages[i].content) = ChatOfText(db_messages[j].content)
              => db_messages[i].session_id = db_messages[j].session_id
    /\ (context_messages # None /\ Len(db_messages) <= LoadLimit) =>
          \A i \in UserTurns :
             (/\ ChatOfText(db_messages[i].content) = h_msg.chat_id
              /\ db_messages[i].created_at <= Val(saved_at))
                 => \E k \in 1..Len(Val(context_messages)) :
                       Val(context_messages)[k].content = db_messages[i].content

\* C37: the turns written while a message of one chat was handled never come
\* into the context window built for a message of another chat: every user
\* turn of the context of a message was written in the chat of that message
C37_ChatsIsolated ==
    (h_msg # NoMsg /\ context_messages # None) =>
       \A k \in 1..Len(Val(context_messages)) :
          Val(context_messages)[k].role = "user" =>
             ChatOfText(Val(context_messages)[k].content) = h_msg.chat_id


(***************************************************************************)
(* SpecTR: one tool round of handle_message, from the first                *)
(* process_message to the reply, one await per step                        *)
(***************************************************************************)
\* the most tool calls one model reply carries
MaxToolCalls == 2

\* the texts a model reply carries: an answer, nothing, only blanks
Texts == {"answer", "", " "}

\* handlers.py 528, 593, 614 and 458-459: the fixed texts of the handler
FallbackApology == "fallback apology"
EmptyNotice == "empty notice"
Apology == "apology"
ResultsSummary == "results summary"

\* the tools the plugins registered (manager.py 30-33) and the names a model asks for
tool_registry == {"web_search"}
ToolNames == {"web_search", "ghost"}

\* the arguments of a tool call as the provider hands them on (provider.py 202): a
\* dict becomes its JSON text, anything else is passed on as it is
ArgumentTexts == {"{}", "{"}
ToolCalls == [name : ToolNames, arguments : ArgumentTexts]
ToolCallLists ==
    UNION {[1..n -> ToolCalls] : n \in 1..MaxToolCalls}

\* json.loads: the parsed value, or None when the text is not JSON (it raises)
JsonLoads(text) == IF text = "{}" THEN Some("dict") ELSE None

\* what a plugin does with a call: it returns a text, returns a page that happens
\* to hold the word Error, or raises
PluginOutcomes == {[kind |-> "returns", text |-> "result"],
                   [kind |-> "returns", text |-> "an Error page"],
                   [kind |-> "raises", text |-> "boom"]}

\* `w in text` of two strings
Has(text, w) ==
    \E i \in 1..(Len(text) - Len(w) + 1) : SubSeq(text, i, i + Len(w) - 1) = w

\* a registry that hands every name to a plugin
ExecuteToolAnyName(tool_name, outcome) ==
    [kind |-> outcome.kind, text |-> outcome.text, invoked |-> TRUE]

\* manager.py 41-51: execute_tool raises ValueError for a name no plugin
\* registered, else the plugin runs
ExecuteTool(tool_name, outcome) ==
    IF tool_name \notin tool_registry
    THEN [kind |-> "raises", text |-> "Tool not found: " \o tool_name, invoked |-> FALSE]
    ELSE [kind |-> outcome.kind, text |-> outcome.text, invoked |-> TRUE]

\* handlers.py 638-651: the result of one call, the exception of it as a text
ToolResult(tool_name, x) ==
    [tool_name |-> tool_name,
     result |-> IF x.kind = "returns" THEN x.text ELSE "Error: " \o x.text]

\* a handler that goes on to the synthesis whatever the tools gave
HasSuccessfulResultsAlways(results) == TRUE

\* handlers.py 383: any('Error' not in result['result'] for result in tool_results_list)
HasSuccessfulResults(results) ==
    \E i \in 1..Len(results) : ~Has(results[i].result, "Error")

\* handlers.py 396-403: the metadata of the tool-call turn, the list of the calls
RECURSIVE CallList(_)
CallList(calls) ==
    IF calls = << >> THEN ""
    ELSE calls[1].name \o ":" \o calls[1].arguments \o ";" \o CallList(Tail(calls))
ToolCallsMetadata(calls) == "tool_calls " \o CallList(calls)

\* the session of the handled message, the calls of the first reply
SessionId == Val(user_session).session_id
RequestedCalls == Val(h_response).tool_calls

\* the tool turns of the round committed so far
ToolTurns == {i \in 1..Len(db_messages) : db_messages[i].role = "tool"}

\* the steps of the round whose await may raise into the catch-all (the
\* exceptions of execute_tool are caught in _handle_tool_calls)
TRTry == {"process_message", "save_tool_results", "save_response"}

vars_not_tr == <<rl_pc, rl_user, ttl, rl_result, arrived, vars_cw, vars_store, h_msg, tx,
                 user_session, raised, saved_at, updates, redis_count, redis_ttl, vars_gw, vars_ext>>
\* the same without the exception flag, for the steps that raise
vars_not_raise == <<rl_pc, rl_user, ttl, rl_result, arrived, vars_cw, vars_store, h_msg,
                    tx, user_session, saved_at, updates, redis_count, redis_ttl, vars_gw, vars_ext>>

\* the state handle_message is in when the user turn of the first message of
\* user 1 in the private chat is committed (handlers.py 334)
AfterUserTurn ==
    /\ redis_count = ConsumeToken([count |-> [k \in Keys |-> None],
                                   ttl |-> [k \in Keys |-> -2]], 1).count
    /\ redis_ttl = ConsumeToken([count |-> [k \in Keys |-> None],
                                 ttl |-> [k \in Keys |-> -2]], 1).ttl
    /\ rl_pc = [p \in Procs |-> "idle"]
    /\ rl_user = [p \in Procs |-> NoUser]
    /\ ttl = [p \in Procs |-> None]
    /\ rl_result = [p \in Procs |-> NoResult]
    /\ arrived = 0
    /\ db_users = {1}
    /\ session_seq = 1
    /\ session_cache = [c \in Chats |-> IF c = 1 THEN Some(NewUserSession(1, 1)) ELSE None]
    /\ db_sessions = <<[id |-> 1, user_id |-> 1, last_active |-> 1]>>
    /\ db_messages = <<Row(1, "user", Text(1, 1), None, Some("private"), 1)>>
    /\ now = 1
    /\ h_pc = "process_message"
    /\ h_msg = [chat_id |-> 1, user |-> 1, message_text |-> Text(1, 1), addressed |-> TRUE]
    /\ tx = NoTx
    /\ user_session = Some(NewUserSession(1, 1))
    /\ context_messages = None
    /\ response_text = None
    /\ h_tokens = None
    /\ replies = << >>
    /\ raised = FALSE
    /\ model_calls = 0
    /\ tool_calls = 0
    /\ saved_at = Some(1)
    /\ updates = 1
    /\ faults = 0

InitTR == AfterUserTurn /\ NoCaller /\ NoRound /\ NoGateway /\ NoExt

\* handlers.py 337-378, 464-528: get_context_window, the tool schemas, the first
\* process_message; the reply is a text, or an object with tool calls
TRProcessMessage ==
    /\ h_pc = "process_message"
    /\ \E selected \in SelectRecent(db_messages, SessionId, LoadLimit) :
          context_messages' = Some(ContextOf(ToMessages(db_messages, selected),
                                             max_context_tokens))
    /\ model_calls' = model_calls + 1
    /\ call_tools' = Append(call_tools, Some("schemas"))
    /\ \/ \E text \in Texts :
             /\ h_response' = Some([content |-> text, tool_calls |-> << >>])
             /\ response_text' = Some(text)
             /\ h_pc' = "save_response"
       \/ \E calls \in ToolCallLists :
             /\ h_response' = Some([content |-> "", tool_calls |-> calls])
             /\ h_pc' = "handle_tool_calls"
             /\ UNCHANGED response_text
    /\ UNCHANGED <<vars_db, h_tokens, replies, tool_calls, faults, tool_results_list,
                   executed, sent>>

\* handlers.py 630-651: one turn of the loop of _handle_tool_calls: the arguments
\* are parsed, execute_tool is awaited, its result or its exception is appended
TRExecuteTool ==
    /\ h_pc = "handle_tool_calls"
    /\ Len(tool_results_list) < Len(RequestedCalls)
    /\ LET tool_call == RequestedCalls[Len(tool_results_list) + 1]
       IN /\ JsonLoads(tool_call.arguments) # None
          /\ \E outcome \in PluginOutcomes :
                LET x == ExecuteTool(tool_call.name, outcome)
                IN /\ executed' = IF x.invoked THEN Append(executed, tool_call.name)
                                  ELSE executed
                   /\ tool_results_list' =
                         Append(tool_results_list, ToolResult(tool_call.name, x))
    /\ tool_calls' = tool_calls + 1
    /\ UNCHANGED <<vars_db, h_pc, context_messages, response_text, h_tokens, replies,
                   model_calls, faults, h_response, call_tools, sent>>

\* handlers.py 632, 611-618: json.loads of the arguments raises outside the try of
\* the loop: _handle_tool_calls raises, its results are gone, the catch-all of
\* handle_message sends the apology
TRArgumentsRaise ==
    /\ h_pc = "handle_tool_calls"
    /\ Len(tool_results_list) < Len(RequestedCalls)
    /\ JsonLoads(RequestedCalls[Len(tool_results_list) + 1].arguments) = None
    /\ tool_results_list' = << >>
    /\ raised' = TRUE
    /\ replies' = Append(replies, "apology")
    /\ sent' = Append(sent, Apology)
    /\ h_pc' = "done"
    /\ UNCHANGED <<vars_db, context_messages, response_text, h_tokens, model_calls,
                   tool_calls, faults, h_response, executed, call_tools>>

\* handlers.py 380-407: _handle_tool_calls returned; when no result is without
\* the error marker, the fixed text; else the tool-call turn is saved and committed
TRToolsReturned ==
    /\ h_pc = "handle_tool_calls"
    /\ Len(tool_results_list) = Len(RequestedCalls)
    /\ IF ~HasSuccessfulResults(tool_results_list)
       THEN /\ response_text' = Some(ToolsUnavailable)
            /\ h_pc' = "save_response"
            /\ UNCHANGED vars_db
       ELSE /\ now' = now + 1
            /\ db_messages' = Commit(db_messages,
                                     UpdateContext(<< >>, SessionId, "assistant", "", None,
                                                   Some(ToolCallsMetadata(RequestedCalls)),
                                                   now'))
            /\ db_sessions' = TouchSession(db_sessions, SessionId, now')
            /\ h_pc' = "save_tool_results"
            /\ UNCHANGED response_text
    /\ UNCHANGED <<context_messages, h_tokens, replies, model_calls, tool_calls, faults,
                   vars_tr>>

\* handlers.py 410-417: the next tool result is saved and committed
TRSaveToolResult ==
    /\ h_pc = "save_tool_results"
    /\ Cardinality(ToolTurns) < Len(tool_results_list)
    /\ now' = now + 1
    /\ LET tool_result == tool_results_list[Cardinality(ToolTurns) + 1]
       IN db_messages' = Commit(db_messages,
                                UpdateContext(<< >>, SessionId, "tool", tool_result.result,
                                              None, Some(tool_result.tool_name), now'))
    /\ db_sessions' = TouchSession(db_sessions, SessionId, now')
    /\ UNCHANGED <<h_pc, context_messages, response_text, h_tokens, replies, model_calls,
                   tool_calls, faults, vars_tr>>

\* a synthesis call that offers the tools again
SynthesisToolsOffered == Some("schemas")

\* handlers.py 445: the `tools` argument of the synthesis call
SynthesisTools == None

\* handlers.py 420-463: the tool-call message and the results go into the
\* context, the second process_message is made without tools; tool calls in its
\* reply are dropped for a summary of the results
TRSynthesis ==
    /\ h_pc = "save_tool_results"
    /\ Cardinality(ToolTurns) = Len(tool_results_list)
    /\ context_messages' =
          Some(Val(context_messages)
               \o <<[role |-> "assistant", content |-> ""]>>
               \o [i \in 1..Len(tool_results_list) |->
                      [role |-> "tool", content |-> tool_results_list[i].result]])
    /\ model_calls' = model_calls + 1
    /\ call_tools' = Append(call_tools, SynthesisTools)
    /\ \/ \E final_response \in Texts : response_text' = Some(final_response)
       \/ \E calls \in ToolCallLists : response_text' = Some(ResultsSummary)
    /\ h_pc' = "save_response"
    /\ UNCHANGED <<vars_db, h_tokens, replies, tool_calls, faults, h_response,
                   tool_results_list, executed, sent>>

\* a handler that replaces an answer of blanks by the fallback
ResolvedTextNoBlank(text) ==
    IF text = None \/ IsBlank(Val(text)) THEN FallbackApology ELSE Val(text)

\* handlers.py 527-528: only a missing text is replaced by the fallback
ResolvedText(text) == IF text = None THEN FallbackApology ELSE Val(text)

\* handlers.py 555-593: the text that goes to the chat
SentText(text) == IF ~IsBlank(text) THEN text ELSE EmptyNotice

\* a handler that never records a tool as called
ToolCalledNever(reply) == FALSE

\* handlers.py 374-379: tool_called, set when the first reply has tool calls
ToolCalled(reply) == reply.tool_calls # << >>

\* handlers.py 531-534: the metadata of the final assistant turn (the
\* websearch_called flag of _handle_tool_calls is left out)
ResponseMetadata(tool_called) ==
    IF tool_called THEN "tool_called: true" ELSE "tool_called: false"

\* handlers.py 527-595: the assistant turn is saved and committed, the reply is sent
TRSaveResponse ==
    /\ h_pc = "save_response"
    /\ now' = now + 1
    /\ db_messages' = Commit(db_messages,
                             UpdateContext(<< >>, SessionId, "assistant",
                                           ResolvedText(response_text), h_tokens,
                                           Some(ResponseMetadata(ToolCalled(Val(h_response)))),
                                           now'))
    /\ db_sessions' = TouchSession(db_sessions, SessionId, now')
    /\ response_text' = Some(ResolvedText(response_text))
    /\ replies' = Append(replies, ReplyFor(ResolvedText(response_text)))
    /\ sent' = Append(sent, SentText(ResolvedText(response_text)))
    /\ h_pc' = "done"
    /\ UNCHANGED <<context_messages, h_tokens, model_calls, tool_calls, faults,
                   h_response, tool_results_list, executed, call_tools>>

\* handlers.py 611-618: an await of the round raises, the apology is sent
TRException ==
    /\ Fault
    /\ h_pc \in TRTry
    /\ raised' = TRUE
    /\ replies' = Append(replies, "apology")
    /\ sent' = Append(sent, Apology)
    /\ h_pc' = "done"
    /\ UNCHANGED <<vars_db, context_messages, response_text, h_tokens, model_calls,
                   tool_calls, h_response, tool_results_list, executed, call_tools>>

NextTR ==
    \/ TRProcessMessage /\ UNCHANGED vars_not_tr
    \/ TRExecuteTool /\ UNCHANGED vars_not_tr
    \/ TRArgumentsRaise /\ UNCHANGED vars_not_raise
    \/ TRToolsReturned /\ UNCHANGED vars_not_tr
    \/ TRSaveToolResult /\ UNCHANGED vars_not_tr
    \/ TRSynthesis /\ UNCHANGED vars_not_tr
    \/ TRSaveResponse /\ UNCHANGED vars_not_tr
    \/ TRException /\ UNCHANGED vars_not_raise

SpecTR == InitTR /\ [][NextTR]_vars


(***************************************************************************)
(* Claims about the tool round, checked under SpecTR                       *)
(***************************************************************************)
\* the handling is over without an exception and the first reply carried tool calls
RoundOver ==
    /\ h_pc = "done"
    /\ ~raised
    /\ h_response # None
    /\ RequestedCalls # << >>

\* C11: whenever the first reply of the model carries tool calls, the turns
\* persisted for the message are, in this order, the user turn, one assistant
\* turn with empty content and the call list as metadata, one tool turn for
\* each tool result, and the final assistant turn; and the tool turns are
\* persisted before the synthesis call is issued
C11_ToolRoundTurnOrder ==
    /\ RoundOver =>
          /\ Len(db_messages) = Len(RequestedCalls) + 3
          /\ db_messages[1].role = "user"
          /\ db_messages[2].role = "assistant"
          /\ db_messages[2].content = ""
          /\ db_messages[2].message_metadata = Some(ToolCallsMetadata(RequestedCalls))
          /\ \A i \in 1..Len(RequestedCalls) :
                /\ db_messages[2 + i].role = "tool"
                /\ db_messages[2 + i].content = tool_results_list[i].result
          /\ db_messages[Len(db_messages)].role = "assistant"
          /\ db_messages[Len(db_messages)].content = Val(response_text)
    /\ Len(call_tools) = 2 => Cardinality(ToolTurns) = Len(tool_results_list)


\* the tool calls of the first reply (none before it and for a text reply)
FirstReplyCalls == IF h_response = None THEN 0 ELSE Len(RequestedCalls)

\* C12: one tool round-trip per message: at most two process_message calls are
\* made, the second one carries no tool schemas, and the tools handed to
\* execute_tool and to the plugins are never more than the tool calls of the
\* first reply, whatever the synthesis reply asks for
C12_OneToolRound ==
    /\ model_calls <= 2
    /\ Len(call_tools) = model_calls
    /\ Len(call_tools) >= 1 => call_tools[1] = Some("schemas")
    /\ Len(call_tools) = 2 => call_tools[2] = None
    /\ tool_calls <= FirstReplyCalls
    /\ Len(executed) <= tool_calls

\* a handling is over whose synthesis reply asked for tools again: two model
\* calls, and only the calls of the first reply were executed
C12_Witness ==
    /\ h_pc = "done"
    /\ ~raised
    /\ model_calls = 2
    /\ response_text = Some(ResultsSummary)
    /\ Len(RequestedCalls) >= 2
    /\ tool_calls = Len(RequestedCalls)


\* succeeded of a tool result: its text holds no error marker (the text of a
\* raised execution starts with one)
Succeeded(tool_result) == ~Has(tool_result.result, "Error")
SomeSucceeded == \E i \in 1..Len(tool_results_list) : Succeeded(tool_results_list[i])

\* C13: after a tool round the synthesis call is made if and only if at least
\* one tool execution of the round succeeded; when all of them failed no second
\* model call is made, and the text saved and sent is the fixed apology text
C13_SynthesisIffSomeSucceeded ==
    /\ RoundOver =>
          /\ model_calls = 2 <=> SomeSucceeded
          /\ ~SomeSucceeded =>
                /\ model_calls = 1
                /\ sent = <<ToolsUnavailable>>
                /\ db_messages[Len(db_messages)].content = ToolsUnavailable
    /\ (h_response # None /\ model_calls = 2) => SomeSucceeded

\* a round of two tool calls that both failed is over
C13_Witness ==
    /\ RoundOver
    /\ Len(tool_results_list) >= 2
    /\ ~SomeSucceeded
    /\ sent = <<ToolsUnavailable>>


\* C14: for every list of tool calls of the model, _handle_tool_calls returns
\* exactly one result per call, in the order of the calls, and never raises:
\* once it is left, every call of the first reply has its result
C14_OneResultPerCall ==
    h_response # None =>
       /\ Len(tool_results_list) <= Len(RequestedCalls)
       /\ \A i \in 1..Len(tool_results_list) :
             tool_results_list[i].tool_name = RequestedCalls[i].name
       /\ h_pc # "handle_tool_calls" => Len(tool_results_list) = Len(RequestedCalls)


\* the loop of _handle_tool_calls is at a call with parsed arguments that names
\* a tool no plugin registered
AtUnknownTool ==
    /\ h_pc = "handle_tool_calls"
    /\ Len(tool_results_list) < Len(RequestedCalls)
    /\ JsonLoads(RequestedCalls[Len(tool_results_list) + 1].arguments) # None
    /\ RequestedCalls[Len(tool_results_list) + 1].name \notin tool_registry

\* C15: a tool call that names a tool no plugin registered invokes no plugin; the
\* not-found error of the registry becomes the failed result
\* "Error: Tool not found: <name>" of that call, and the handling of the message
\* goes on
C15_UnknownToolIsFailedResult ==
    [][AtUnknownTool =>
          LET tool_name == RequestedCalls[Len(tool_results_list) + 1].name
          IN /\ tool_results_list' =
                   Append(tool_results_list,
                          [tool_name |-> tool_name,
                           result |-> "Error: Tool not found: " \o tool_name])
             /\ executed' = executed
             /\ h_pc' = "handle_tool_calls"
             /\ ~raised']_vars

\* a handling is over, without an exception, that asked for an unknown tool and
\* then for a registered one, which a plugin executed
C15_Witness ==
    /\ RoundOver
    /\ Len(tool_results_list) >= 2
    /\ tool_results_list[1] = [tool_name |-> "ghost",
                               result |-> "Error: Tool not found: ghost"]
    /\ executed = <<"web_search">>


\* the handling is over without an exception: the final assistant turn is the
\* last turn of the table and its reply the last text sent
AnswerOver == h_pc = "done" /\ ~raised
FinalTurn == db_messages[Len(db_messages)]

\* C16: an empty or whitespace-only final text (direct answer or synthesis
\* answer) is replaced by the fixed fallback apology: the final assistant turn
\* persisted is never empty or blank, and the text sent is the text persisted
\* (the answer, or the fallback in place of an empty one)
C16_EmptyAnswerFallback ==
    AnswerOver =>
       /\ FinalTurn.role = "assistant"
       /\ ~IsBlank(FinalTurn.content)
       /\ sent = <<FinalTurn.content>>
       /\ IsBlank(Val(response_text)) =>
             FinalTurn.content = FallbackApology /\ sent = <<FallbackApology>>


\* the final assistant turns persisted: the turns that carry the tool_called flag
FinalTurns ==
    {i \in 1..Len(db_messages) :
        /\ db_messages[i].role = "assistant"
        /\ db_messages[i].message_metadata
              \in {Some(ResponseMetadata(b)) : b \in BOOLEAN}}

\* C33: a handling that ends without the catch-all persists exactly one final
\* assistant turn, as the last turn it persists, and its tool_called flag is
\* true exactly when the first reply of the model carried tool calls; a
\* handling that ends in the catch-all persists no final assistant turn
C33_OneFinalAssistantTurn ==
    /\ (h_pc = "done" /\ ~raised) =>
          /\ FinalTurns = {Len(db_messages)}
          /\ FinalTurn.message_metadata =
                Some(IF FirstReplyCalls > 0 THEN "tool_called: true"
                     ELSE "tool_called: false")
    /\ (h_pc = "done" /\ raised) => FinalTurns = {}
    /\ h_pc # "done" => FinalTurns = {}

\* the first reply asked for a tool, every call failed, no synthesis call was
\* made, and the final turn says that a tool was called
C33_Witness ==
    /\ h_pc = "done"
    /\ ~raised
    /\ FirstReplyCalls > 0
    /\ model_calls = 1
    /\ FinalTurn.content = ToolsUnavailable
    /\ FinalTurn.message_metadata = Some("tool_called: true")


(***************************************************************************)
(* SpecGW: the model gateway. process_message calls _generate_with_retry   *)
(* (llm/service.py 83-144): tenacity's retry around the circuit breaker    *)
(* around the timeout around provider.generate (llm/provider.py 46-231,    *)
(* the non-streaming HTTP exchange). The calls come one at a time.         *)
(***************************************************************************)
\* the configuration of the gateway (config.py 26-31), in small values
retry_attempts == 2
retry_min_wait == 1
retry_max_wait == 2
request_timeout == 2
circuit_breaker_failures == 3
circuit_breaker_timeout == 3
\* the process_message calls and the instants of the model
MaxCalls == 3
MaxClock == 8

\* the answers of the backend: a status, or no answer at all (the connection fails)
NoResponse == 0
Statuses == {200, 400, 500}
Answers == Statuses \cup {NoResponse}

\* the `tools` argument: None or an empty list (both << >>), or schemas
ToolsArguments == {<< >>, <<"web_search">>}

\* provider.py 92-105: the payload of the request, with the tools when there are any
Payload(tools) ==
    [k \in {"model", "messages", "stream", "options"}
           \cup (IF tools # << >> THEN {"tools"} ELSE {}) |->
        IF k = "tools" THEN tools ELSE <<k>>]

\* provider.py 162: the payload without its tools field
WithoutTools(payload) == [k \in DOMAIN payload \ {"tools"} |-> payload[k]]

\* a provider that sends again after any error status
ResendOnAnyError(tools, status) == status >= 400

\* provider.py 160: the request is sent again when tools were sent and the
\* status is a server error
ResendWithoutTools(tools, status) == tools # << >> /\ status >= 500

\* provider.py 153-172: the non-streaming exchange of one generate call: the
\* payloads posted, the answers, and how generate ends
HttpExchange(tools, first, second) ==
    LET payload == Payload(tools)
    IN IF first = NoResponse
       THEN [requests |-> <<payload>>, responses |-> <<first>>, result |-> "ClientError"]
       ELSE IF first < 400
       THEN [requests |-> <<payload>>, responses |-> <<first>>, result |-> "returned"]
       ELSE IF ~ResendWithoutTools(tools, first)
       THEN [requests |-> <<payload>>, responses |-> <<first>>, result |-> "LLMError"]
       ELSE [requests |-> <<payload, WithoutTools(payload)>>,
             responses |-> <<first, second>>,
             result |-> IF second = NoResponse THEN "ClientError"
                        ELSE IF second >= 400 THEN "LLMError" ELSE "returned"]

\* provider.py 155: a payload that cannot be encoded raises before any request
Unencodable == [requests |-> << >>, responses |-> << >>, result |-> "TypeError"]

\* what made an attempt fail
Cause(x) ==
    IF x.result = "TypeError" THEN "malformed input"
    ELSE IF x.result = "ClientError" THEN "connection"
    ELSE IF x.responses[Len(x.responses)] >= 500 THEN "status 5xx"
    ELSE "status 4xx"

\* a gateway that lets the exceptions of the provider pass as they are
NotConverted(exception) == exception

\* service.py 135-144: every exception of provider.generate leaves
\* _generate_with_retry as an LLMError
Converted(exception) == "LLMError"

\* service.py 90: the exceptions tenacity retries on
Retried(exception) == exception \in {"LLMError", "TimeoutError", "ConnectionError"}

\* a breaker whose expected_exception is the timeout alone
IsFailureOnTimeoutOnly(exception) == exception = "TimeoutError"

\* service.py 97: expected_exception, the exceptions the breaker counts
IsFailure(exception) == exception = "LLMError"

\* service.py 85-89: wait_exponential(multiplier=1, min, max) after attempt n
Wait(n) ==
    LET exp == 2 ^ (n - 1)
        capped == IF exp < retry_max_wait THEN exp ELSE retry_max_wait
    IN IF capped > retry_min_wait THEN capped ELSE retry_min_wait

\* the breaker turns calls away: it is open and the cool-down has not elapsed
Opened == cb_state = "open" /\ gw_clock - cb_opened < circuit_breaker_timeout

vars_not_gw == <<vars_rl, vars_db, vars_cw, vars_store, vars_h, vars_tr, vars_ext>>

InitGW == NoTraffic /\ EmptyDB /\ NoCaller /\ NoHandler /\ NoRound /\ NoGateway /\ NoExt

\* service.py 146-190: process_message builds the messages and calls
\* _generate_with_retry
GWProcessMessage(tools) ==
    /\ gw_pc = "idle"
    /\ gw_calls < MaxCalls
    /\ gw_calls' = gw_calls + 1
    /\ gw_tools' = tools
    /\ attempt_number' = 1
    /\ invocations' = 0
    /\ elapsed' = 0
    /\ requests' = << >>
    /\ responses' = << >>
    /\ generate_result' = None
    /\ last_error' = None
    /\ gw_outcome' = None
    /\ gw_pc' = "call"
    /\ UNCHANGED <<gw_clock, cb_state, cb_failure_count, cb_opened, consecutive_failures,
                   rejected, trial_calls>>

\* service.py 94-98: the open breaker raises CircuitBreakerError without calling
\* the function; tenacity does not retry on it
GWRejected ==
    /\ gw_pc = "call"
    /\ Opened
    /\ rejected' = rejected + 1
    /\ gw_outcome' = Some("CircuitBreakerError")
    /\ gw_pc' = "idle"
    /\ UNCHANGED <<gw_tools, gw_calls, attempt_number, invocations, elapsed, gw_clock,
                   cb_state, cb_failure_count, cb_opened, requests, responses,
                   generate_result, last_error, consecutive_failures, trial_calls>>

\* service.py 83-144: one attempt: the breaker lets the call through,
\* provider.generate runs under asyncio.timeout(request_timeout), which is
\* entered anew in every attempt (service.py 120); its exception is converted,
\* the breaker counts, tenacity decides
GWAttempt ==
    /\ gw_pc = "call"
    /\ ~Opened
    /\ invocations' = invocations + 1
    /\ trial_calls' = IF cb_state = "open" THEN trial_calls + 1 ELSE trial_calls
    /\ \E encodable \in BOOLEAN, first \in Answers, second \in Answers,
          d \in 0..request_timeout :
          LET timed_out == d = request_timeout
              x == IF encodable THEN HttpExchange(gw_tools, first, second) ELSE Unencodable
              exception == IF timed_out THEN "LLMError"
                           ELSE IF x.result = "returned" THEN "none"
                           ELSE Converted(x.result)
              failures == cb_failure_count + 1
          IN /\ gw_clock + d <= MaxClock
             /\ timed_out => encodable
             /\ gw_clock' = gw_clock + d
             /\ elapsed' = elapsed + d
             /\ requests' = x.requests
             /\ responses' = IF timed_out
                             THEN SubSeq(x.responses, 1, Len(x.responses) - 1)
                             ELSE x.responses
             /\ generate_result' = Some(IF timed_out THEN "CancelledError" ELSE x.result)
             /\ last_error' = IF exception = "none" THEN None
                              ELSE Some(IF timed_out THEN "timeout" ELSE Cause(x))
             /\ consecutive_failures' = IF exception = "none" THEN 0
                                        ELSE consecutive_failures + 1
             /\ IF exception # "none" /\ IsFailure(exception)
                THEN /\ cb_failure_count' = failures
                     /\ cb_state' = IF failures >= circuit_breaker_failures
                                    THEN "open" ELSE cb_state
                     /\ cb_opened' = IF failures >= circuit_breaker_failures
                                     THEN gw_clock' ELSE cb_opened
                ELSE /\ cb_failure_count' = 0
                     /\ cb_state' = "closed"
                     /\ UNCHANGED cb_opened
             /\ IF exception = "none"
                THEN gw_outcome' = Some("returned") /\ gw_pc' = "idle"
                ELSE IF ~Retried(exception)
                THEN gw_outcome' = Some(exception) /\ gw_pc' = "idle"
                ELSE IF attempt_number < retry_attempts
                THEN gw_outcome' = None /\ gw_pc' = "backoff"
                ELSE gw_outcome' = Some("RetryError") /\ gw_pc' = "idle"
    /\ UNCHANGED <<gw_tools, gw_calls, attempt_number, rejected>>

\* service.py 85-91: tenacity sleeps, then the next attempt is due
GWBackoff ==
    /\ gw_pc = "backoff"
    /\ gw_clock + Wait(attempt_number) <= MaxClock
    /\ gw_clock' = gw_clock + Wait(attempt_number)
    /\ elapsed' = elapsed + Wait(attempt_number)
    /\ attempt_number' = attempt_number + 1
    /\ gw_pc' = "call"
    /\ UNCHANGED <<gw_tools, gw_calls, invocations, cb_state, cb_failure_count, cb_opened,
                   requests, responses, generate_result, last_error, gw_outcome,
                   consecutive_failures, rejected, trial_calls>>

\* time passes between two calls
GWTick ==
    /\ gw_pc = "idle"
    /\ gw_clock < MaxClock
    /\ gw_clock' = gw_clock + 1
    /\ UNCHANGED <<gw_pc, gw_tools, gw_calls, attempt_number, invocations, elapsed,
                   cb_state, cb_failure_count, cb_opened, requests, responses,
                   generate_result, last_error, gw_outcome, consecutive_failures,
                   rejected, trial_calls>>

NextGW ==
    \/ \E tools \in ToolsArguments : GWProcessMessage(tools) /\ UNCHANGED vars_not_gw
    \/ GWRejected /\ UNCHANGED vars_not_gw
    \/ GWAttempt /\ UNCHANGED vars_not_gw
    \/ GWBackoff /\ UNCHANGED vars_not_gw
    \/ GWTick /\ UNCHANGED vars_not_gw

SpecGW == InitGW /\ [][NextGW]_vars


(***************************************************************************)
(* Claims about the model gateway, checked under SpecGW                    *)
(***************************************************************************)
\* C17: after N consecutive failed backend calls (N the failure threshold) the
\* breaker is open; while it is open and the cool-down has not elapsed, a model
\* call fails at once with the error of the breaker and the backend is not
\* invoked; once the cool-down has elapsed, the attempt that is due invokes the
\* backend
C17_BreakerOpensAndRecovers ==
    /\ [](consecutive_failures >= circuit_breaker_failures => cb_state = "open")
    /\ [][/\ (gw_pc = "call" /\ cb_state = "open"
              /\ gw_clock - cb_opened < circuit_breaker_timeout) =>
                /\ gw_outcome' = Some("CircuitBreakerError")
                /\ invocations' = invocations
                /\ requests' = requests
                /\ gw_clock' = gw_clock
          /\ (gw_pc = "call" /\ cb_state = "open"
              /\ gw_clock - cb_opened >= circuit_breaker_timeout) =>
                /\ invocations' = invocations + 1
                /\ gw_outcome' # Some("CircuitBreakerError")]_vars

\* the breaker opened, turned a call away, and after the cool-down let a call
\* through that reached the backend and closed it
C17_Witness ==
    /\ rejected >= 1
    /\ trial_calls >= 1
    /\ cb_state = "closed"
    /\ gw_outcome = Some("returned")
    /\ gw_calls = MaxCalls


\* the errors that are not transient: the request itself is at fault (the
\* payload cannot be encoded, or the backend refuses it with a client-error status)
MalformedInput == {"malformed input", "status 4xx"}

\* C18: one process_message call invokes provider.generate at most
\* retry_attempts times; a further attempt is due only after a transient error
\* (connection error, timeout, server error of the backend), never after a
\* malformed-input error; and when the attempts are used up the call ends with
\* the failure
C18_RetryOnlyTransient ==
    /\ invocations <= retry_attempts
    /\ gw_pc = "backoff" => Val(last_error) \notin MalformedInput
    /\ (gw_pc = "idle" /\ last_error # None /\ Val(last_error) \notin MalformedInput
        /\ invocations = retry_attempts) => gw_outcome = Some("RetryError")

\* C19: the per-request timeout bounds the whole call: the time one
\* process_message call takes, over all its attempts and waits, never exceeds
\* request_timeout, and a call that reaches it ends with a timeout error
C19_TimeoutBoundsWholeCall ==
    /\ elapsed <= request_timeout
    /\ elapsed = request_timeout =>
          /\ gw_pc = "idle"
          /\ last_error = Some("timeout")


\* the last provider.generate posted a request that carried tools
SentTools == "tools" \in DOMAIN requests[1]

\* C20: within one non-streaming generate call, a server error (status >= 500)
\* on a request that carried tools is followed by exactly one more request, the
\* same payload without its tools field; a 4xx status, or an error on a request
\* without tools, is followed by no request and ends the call with an LLMError;
\* an error status of the second request ends the call with an LLMError; no
\* generate call posts more than two requests
C20_OneResendWithoutTools ==
    /\ Len(requests) <= 2
    /\ Len(requests) = 2 =>
          /\ SentTools
          /\ responses[1] >= 500
          /\ DOMAIN requests[2] = DOMAIN requests[1] \ {"tools"}
          /\ \A k \in DOMAIN requests[2] : requests[2][k] = requests[1][k]
    /\ (Len(responses) >= 1 /\ SentTools /\ responses[1] >= 500) => Len(requests) = 2
    /\ (Len(responses) >= 1 /\ responses[1] >= 400
        /\ (responses[1] < 500 \/ ~SentTools)) =>
          /\ Len(requests) = 1
          /\ generate_result = Some("LLMError")
    /\ (Len(responses) = 2 /\ responses[2] >= 400) => generate_result = Some("LLMError")

\* a request with tools got a server error, was sent again without tools, and
\* the second request failed too
C20_Witness ==
    /\ Len(requests) = 2
    /\ SentTools
    /\ responses = <<500, 500>>
    /\ generate_result = Some("LLMError")

\* the step in which provider.generate is invoked
Invokes == gw_pc = "call" /\ invocations' = invocations + 1

\* C38: the breaker counts every failed attempt, each retry attempt of one
\* process_message call included, so that after circuit_breaker_failures
\* consecutive failures the backend is invoked again only after a cool-down;
\* when the breaker opens within the attempts of a call, the attempt that is
\* due next is turned away without an invocation and the call ends; and a
\* call turned away by the breaker is not retried
C38_BreakerCountsEveryAttempt ==
    /\ [][(Invokes /\ last_error' # None) =>
             cb_failure_count' = cb_failure_count + 1]_vars
    /\ [][(Invokes /\ consecutive_failures >= circuit_breaker_failures) =>
             gw_clock - cb_opened >= circuit_breaker_timeout]_vars
    /\ []((gw_pc = "call" /\ attempt_number > 1 /\ cb_state = "open") => Opened)
    /\ [][(gw_pc = "call" /\ Opened) =>
             /\ invocations' = invocations
             /\ attempt_number' = attempt_number
             /\ gw_outcome' = Some("CircuitBreakerError")
             /\ gw_pc' = "idle"]_vars
    /\ [](gw_outcome = Some("CircuitBreakerError") => gw_pc = "idle")

\* the breaker opened on the first attempt of a call, and the second attempt
\* of that call was turned away
C38_Witness ==
    /\ gw_pc = "idle"
    /\ gw_outcome = Some("CircuitBreakerError")
    /\ attempt_number = 2
    /\ invocations = 1
    /\ consecutive_failures = circuit_breaker_failures
    /\ cb_state = "open"


(***************************************************************************)
(* The specifications below each use a group of variables of their own;    *)
(* the rest of the state stays as it is before any message                 *)
(***************************************************************************)
vars_core == <<vars_rl, vars_db, vars_cw, vars_store, vars_h, vars_tr, vars_gw>>
Quiet == NoTraffic /\ EmptyDB /\ NoCaller /\ NoHandler /\ NoRound /\ NoGateway

(***************************************************************************)
(* SpecNM: the way of a backend reply to the text of the answer: the body  *)
(* of the HTTP answer (or the output of the CLI) through                   *)
(* provider.generate (llm/provider.py 64-80, 174-232) and the              *)
(* normalisation of handle_message (handlers.py 378, 464-528)              *)
(***************************************************************************)
\* the most tool_calls entries of one backend message
MaxEntries == 2

\* json.dumps of a string and of the dicts the model meets
JsonString(c) == "\"" \o c \o "\""
DumpsMessage(c) == "{\"message\": {\"content\": " \o JsonString(c) \o "}}"
DumpsContent(c) == "{\"content\": " \o JsonString(c) \o "}"
DumpsOther(c) == "{\"text\": " \o JsonString(c) \o "}"
ArgsText(q) == "{\"q\": " \o JsonString(q) \o "}"

\* the texts a model writes, and the texts a backend hands on: one of those, the
\* JSON text of a message object or of a content object around one, or text that
\* starts like JSON and is none
ModelTexts == {"hello", "hi", ""}
Contents ==
    ModelTexts \cup {DumpsMessage(c) : c \in ModelTexts}
               \cup {DumpsContent(c) : c \in ModelTexts} \cup {"{oops", " hi "}

\* an entry of tool_calls: with or without a function; its arguments are a dict
\* {"q": value} (structured) or a text
Arguments ==
    [structured : {TRUE}, value : {"x"}]
        \cup [structured : {FALSE}, value : {ArgsText("x"), "{"}]
Entries == [function : BOOLEAN, name : {"search", "web_search"}, arguments : Arguments]
EntryLists == UNION {[1..n -> Entries] : n \in 0..MaxEntries}

\* the answers of a backend: the body {"message": {"content", "tool_calls"}},
\* {"response": ...}, {"content": ...}, {"text": ...}, or the output of the CLI
Bodies ==
    [shape : {"message"}, content : Contents, tool_calls : EntryLists]
        \cup [shape : {"response", "content", "other", "cli"}, content : Contents,
              tool_calls : {<< >>}]

\* str.strip() for blanks
RECURSIVE Strip(_)
Strip(text) ==
    IF text = "" THEN ""
    ELSE IF SubSeq(text, 1, 1) = " " THEN Strip(SubSeq(text, 2, Len(text)))
    ELSE IF SubSeq(text, Len(text), Len(text)) = " "
    THEN Strip(SubSeq(text, 1, Len(text) - 1))
    ELSE text

\* provider.py 202: the arguments of a call: a dict becomes its JSON text,
\* anything else is handed on as it is
ArgumentsOf(arguments) ==
    IF arguments.structured THEN ArgsText(arguments.value) ELSE arguments.value

\* a provider that names a call after its tool alone
CallIdByName(function_name, idx) == "call_" \o function_name

\* provider.py 213: call_id = f"call_{function_name}_{idx}"
CallId(function_name, idx) == "call_" \o function_name \o "_" \o ToString(idx)

\* provider.py 192-218: the entries with a function become calls; the id is made
\* of the name and the position of the entry
RECURSIVE ConvertToolCalls(_, _)
ConvertToolCalls(entries, idx) ==
    IF idx > Len(entries) THEN << >>
    ELSE (IF entries[idx].function
          THEN <<[id |-> CallId(entries[idx].name, idx - 1),
                  name |-> entries[idx].name,
                  arguments |-> ArgumentsOf(entries[idx].arguments)]>>
          ELSE << >>)
         \o ConvertToolCalls(entries, idx + 1)

\* json.dumps(data) of the bodies that are neither a message nor a response
Dumps(data) ==
    IF data.shape = "content" THEN DumpsContent(data.content)
    ELSE DumpsOther(data.content)

\* provider.py 64-80, 174-232: what generate returns for an answer: a text, or
\* an object with content and tool_calls
ProviderReply(data) ==
    IF data.shape = "cli"
    THEN [kind |-> "text", content |-> Strip(data.content), tool_calls |-> << >>]
    ELSE IF data.shape = "message"
    THEN IF data.tool_calls # << >>
         THEN [kind |-> "object", content |-> data.content,
               tool_calls |-> ConvertToolCalls(data.tool_calls, 1)]
         ELSE [kind |-> "text", content |-> data.content, tool_calls |-> << >>]
    ELSE IF data.shape = "response"
    THEN [kind |-> "text", content |-> data.content, tool_calls |-> << >>]
    ELSE [kind |-> "text", content |-> Dumps(data), tool_calls |-> << >>]

\* a handler that takes every string as it is
LoadsNothing(text) == None

\* handlers.py 493-507: json.loads of a reply that starts like JSON; None when
\* it raises
LoadsReply(text) ==
    IF \E c \in ModelTexts : DumpsMessage(c) = text
    THEN Some([shape |-> "message",
               content |-> CHOOSE c \in ModelTexts : DumpsMessage(c) = text])
    ELSE IF \E c \in ModelTexts : DumpsContent(c) = text
    THEN Some([shape |-> "content",
               content |-> CHOOSE c \in ModelTexts : DumpsContent(c) = text])
    ELSE IF \E c \in Contents : DumpsOther(c) = text
    THEN Some([shape |-> "other", content |-> ""])
    ELSE None

\* handlers.py 472-516: the text of a string reply
TextOfString(string_reply) ==
    LET stripped == Strip(string_reply)
        parsed == LoadsReply(stripped)
        response_text_parsed ==
            IF stripped # "" /\ SubSeq(stripped, 1, 1) \in {"{", "["}
            THEN IF parsed = None THEN string_reply
                 ELSE IF Val(parsed).shape \in {"content", "message"}
                 THEN Val(parsed).content
                 ELSE string_reply
            ELSE string_reply
    IN IF response_text_parsed = "" THEN string_reply ELSE response_text_parsed

\* handlers.py 378, 464-528: the reply the handler works with: the tool calls of
\* an object that has some, else the text
Resolve(reply) ==
    IF reply.kind = "object" /\ reply.tool_calls # << >>
    THEN [text |-> reply.content, tool_calls |-> reply.tool_calls]
    ELSE IF reply.kind = "object"
    THEN [text |-> reply.content, tool_calls |-> << >>]
    ELSE [text |-> TextOfString(reply.content), tool_calls |-> << >>]

InitNM ==
    /\ Quiet
    /\ nm_data \in {Some(data) : data \in Bodies}
    /\ nm_reply = None
    /\ nm_text = None
    /\ mcps = {}
    /\ mgr_tool_registry = {}
    /\ mgr_last = NoOp
    /\ mgr_ops = 0
    /\ custom_system_prompt = None
    /\ sp_messages = << >>
    /\ sp_ops = 0
    /\ NoDurability
    /\ NoBreakerCallers
    /\ NoPending

\* provider.generate returns
NMGenerate ==
    /\ nm_reply = None
    /\ nm_reply' = Some(ProviderReply(Val(nm_data)))
    /\ UNCHANGED <<nm_data, nm_text>>

\* handle_message resolves the reply
NMResolve ==
    /\ nm_reply # None
    /\ nm_text = None
    /\ nm_text' = Some(Resolve(Val(nm_reply)))
    /\ UNCHANGED <<nm_data, nm_reply>>

NextNM ==
    \/ NMGenerate /\ UNCHANGED <<vars_core, vars_mcp, vars_sp, vars_du, vars_hb, vars_wp>>
    \/ NMResolve /\ UNCHANGED <<vars_core, vars_mcp, vars_sp, vars_du, vars_hb, vars_wp>>

SpecNM == InitNM /\ [][NextNM]_vars

\* the backend's answer and what became of it
Body == Val(nm_data)
ModelReply == Val(nm_text)
\* the answer is a text and no tool-call message
TextBody == Body.shape \in {"message", "response", "cli"} /\ Body.tool_calls = << >>

EntryOf(entries, k) ==
    CHOOSE j \in 1..Len(entries) :
        /\ entries[j].function
        /\ Cardinality({i \in 1..j : entries[i].function}) = k

\* C32: every tool call of a normalised reply has an id, the ids of one reply
\* are pairwise distinct, also when a tool is called several times and when
\* entries without a function are skipped, and an id has the form
\* call_<tool name>_<position of the entry in the backend's list, from 0>
C32_ToolCallIdsDistinct ==
    (nm_reply # None /\ Val(nm_reply).kind = "object") =>
       LET calls == Val(nm_reply).tool_calls IN
       /\ \A k \in 1..Len(calls) : calls[k].id # ""
       /\ \A k, l \in 1..Len(calls) : k # l => calls[k].id # calls[l].id
       /\ \A k \in 1..Len(calls) :
             LET j == EntryOf(Body.tool_calls, k) IN
             /\ calls[k].name = Body.tool_calls[j].name
             /\ calls[k].id = "call_" \o calls[k].name \o "_" \o ToString(j - 1)

\* the backend named the same tool twice and both calls came out, with
\* different ids
C32_Witness ==
    /\ nm_reply # None
    /\ Val(nm_reply).kind = "object"
    /\ Len(Val(nm_reply).tool_calls) = 2
    /\ Val(nm_reply).tool_calls[1].name = Val(nm_reply).tool_calls[2].name
    /\ Val(nm_reply).tool_calls[1].id = "call_web_search_0"
    /\ Val(nm_reply).tool_calls[2].id = "call_web_search_1"

(***************************************************************************)
(* SpecMCP: the plugin manager, MCPManager.register_mcp (mcp/manager.py    *)
(* 14-39)                                                                  *)
(***************************************************************************)
\* the register_mcp calls of the model
MaxRegistrations == 3

\* the plugins (BaseMCP.name) and the tool names get_tools may give; "" is a tool
\* without a name
PluginNames == {"websearch", "other"}
PluginToolNames == {"web_search", "calc", ""}

\* self.tool_registry[tool_name] = (mcp.name, tool_name): the entry of the name
\* is set, whatever it was
Put(registry, tool_name, mcp_name) ==
    {e \in registry : e.tool # tool_name} \cup {[tool |-> tool_name, mcp |-> mcp_name]}

\* manager.py 25-33: the named tools of the plugin are entered one after the other
RECURSIVE RegisterTools(_, _, _)
RegisterTools(registry, tools, mcp_name) ==
    IF tools = {} THEN registry
    ELSE LET tool_name == CHOOSE t \in tools : TRUE
         IN RegisterTools(IF tool_name # "" THEN Put(registry, tool_name, mcp_name)
                          ELSE registry,
                          tools \ {tool_name}, mcp_name)

InitMCP ==
    /\ Quiet
    /\ nm_data = None
    /\ nm_reply = None
    /\ nm_text = None
    /\ mcps = {}
    /\ mgr_tool_registry = {}
    /\ mgr_last = NoOp
    /\ mgr_ops = 0
    /\ custom_system_prompt = None
    /\ sp_messages = << >>
    /\ sp_ops = 0
    /\ NoDurability
    /\ NoBreakerCallers
    /\ NoPending

\* what every register_mcp call records
Registration(mcp_name, tools, it_raised) ==
    [op |-> "register_mcp", name |-> mcp_name, tools |-> tools, raised |-> it_raised,
     mcps |-> mcps, tool_registry |-> mgr_tool_registry]

\* manager.py 18-35: initialize, the plugin is entered, get_tools, the tools
\* are entered
MCPRegister(mcp_name, tools) ==
    /\ mgr_ops < MaxRegistrations
    /\ mgr_ops' = mgr_ops + 1
    /\ mcps' = mcps \cup {mcp_name}
    /\ mgr_tool_registry' = RegisterTools(mgr_tool_registry, tools, mcp_name)
    /\ mgr_last' = Registration(mcp_name, tools, FALSE)

\* manager.py 21, 37-39: initialize raises; the exception is logged and raised again
MCPInitializeRaises(mcp_name, tools) ==
    /\ mgr_ops < MaxRegistrations
    /\ mgr_ops' = mgr_ops + 1
    /\ mgr_last' = Registration(mcp_name, tools, TRUE)
    /\ UNCHANGED <<mcps, mgr_tool_registry>>

\* manager.py 21-25, 37-39: get_tools raises after the plugin was entered
MCPGetToolsRaises(mcp_name, tools) ==
    /\ mgr_ops < MaxRegistrations
    /\ mgr_ops' = mgr_ops + 1
    /\ mcps' = mcps \cup {mcp_name}
    /\ mgr_last' = Registration(mcp_name, tools, TRUE)
    /\ UNCHANGED mgr_tool_registry

NextMCP ==
    \/ \E mcp_name \in PluginNames, tools \in SUBSET PluginToolNames :
          MCPRegister(mcp_name, tools) /\ UNCHANGED <<vars_core, vars_nm, vars_sp, vars_du, vars_hb, vars_wp>>
    \/ \E mcp_name \in PluginNames, tools \in SUBSET PluginToolNames :
          MCPInitializeRaises(mcp_name, tools) /\ UNCHANGED <<vars_core, vars_nm, vars_sp, vars_du, vars_hb, vars_wp>>
    \/ \E mcp_name \in PluginNames, tools \in SUBSET PluginToolNames :
          MCPGetToolsRaises(mcp_name, tools) /\ UNCHANGED <<vars_core, vars_nm, vars_sp, vars_du, vars_hb, vars_wp>>

SpecMCP == InitMCP /\ [][NextMCP]_vars

\* the last registration brought a tool name that another plugin had registered
\* before
Collisions ==
    {e \in mgr_last.tool_registry : e.tool \in mgr_last.tools /\ e.mcp # mgr_last.name}

\* C22: tool names are unique across the plugins: a registration that brings a
\* tool name another plugin has registered raises, and the mapping of that
\* name stays with the earlier plugin
C22_NameCollisionIsError ==
    (mgr_last.op = "register_mcp" /\ Collisions # {}) =>
       /\ mgr_last.raised
       /\ Collisions \subseteq mgr_tool_registry

\* C25: when register_mcp raises (initialize or get_tools of the plugin fails),
\* the manager is as it was before the call: the plugin is not entered in mcps
\* and none of its tools in tool_registry
C25_FailedRegistrationChangesNothing ==
    (mgr_last.op = "register_mcp" /\ mgr_last.raised) =>
       /\ mcps = mgr_last.mcps
       /\ mgr_tool_registry = mgr_last.tool_registry


(***************************************************************************)
(* SpecSP: the system prompt of the LLMService (llm/service.py 22-39,      *)
(* 146-174)                                                                *)
(***************************************************************************)
\* the calls of the model
MaxPromptOps == 4

\* the prompts an admin sets, the messages of the users, the contexts
Prompts == {"Custom prompt text", "Another prompt"}
UserMessages == {"Test", "Hi", "Hello"}
ContextLists == {<< >>, <<[role |-> "user", content |-> "before"]>>}

\* service.py 41-80: the built-in prompt, with the tools paragraph or without
LoadSystemPrompt(has_tools) == IF has_tools THEN "Leo, with tools" ELSE "Leo"

\* service.py 23-28: the system_prompt property
SystemPrompt ==
    IF custom_system_prompt # None THEN Val(custom_system_prompt)
    ELSE LoadSystemPrompt(FALSE)

InitSP ==
    /\ Quiet
    /\ nm_data = None
    /\ nm_reply = None
    /\ nm_text = None
    /\ mcps = {}
    /\ mgr_tool_registry = {}
    /\ mgr_last = NoOp
    /\ mgr_ops = 0
    /\ custom_system_prompt = None
    /\ sp_messages = << >>
    /\ sp_ops = 0
    /\ NoDurability
    /\ NoBreakerCallers
    /\ NoPending

\* service.py 30-32: update_system_prompt; no request was made since
SPUpdateSystemPrompt(new_prompt) ==
    /\ sp_ops < MaxPromptOps
    /\ sp_ops' = sp_ops + 1
    /\ custom_system_prompt' = Some(new_prompt)
    /\ sp_messages' = << >>

\* service.py 159-174: the messages array of process_message without MCP
\* context: the system message, the conversation history, the current user message
RequestMessages(system_prompt, context, user_message) ==
    <<[role |-> "system", content |-> system_prompt]>>
    \o context \o <<[role |-> "user", content |-> user_message]>>

\* service.py 146-190: process_message builds the messages of the request: the
\* system message, the context, the user message
SPProcessMessage(user_message, context, tools) ==
    /\ sp_ops < MaxPromptOps
    /\ sp_ops' = sp_ops + 1
    /\ sp_messages' = RequestMessages(LoadSystemPrompt(tools # << >>), context, user_message)
    /\ UNCHANGED custom_system_prompt

NextSP ==
    \/ \E new_prompt \in Prompts :
          SPUpdateSystemPrompt(new_prompt) /\ UNCHANGED <<vars_core, vars_nm, vars_mcp, vars_du, vars_hb, vars_wp>>
    \/ \E user_message \in UserMessages, context \in ContextLists,
          tools \in ToolsArguments :
          SPProcessMessage(user_message, context, tools)
          /\ UNCHANGED <<vars_core, vars_nm, vars_mcp, vars_du, vars_hb, vars_wp>>

SpecSP == InitSP /\ [][NextSP]_vars

\* C23: after update_system_prompt(p) the system_prompt property gives p, and
\* every process_message call made since sends p as the content of the first
\* message, the system message, of its request
C23_CustomPromptIsSent ==
    custom_system_prompt # None =>
       /\ SystemPrompt = Val(custom_system_prompt)
       /\ sp_messages # << >> =>
             sp_messages[1] = [role |-> "system", content |-> Val(custom_system_prompt)]

\* C36: the request built for an incoming message holds the text of that
\* message exactly once as a user message, as its last message: for a message
\* whose text no earlier turn of the session has, the request of the first
\* process_message call of the handler has one user message with that text,
\* the last one
C36_MessageOnceAndLast ==
    (h_msg # NoMsg /\ user_session # None /\ context_messages # None) =>
       LET text    == h_msg.message_text
           mine    == [role |-> "user", content |-> text]
           stored  == {i \in RowIds(db_messages, Val(user_session).session_id) :
                          db_messages[i].role = "user" /\ db_messages[i].content = text}
           request == RequestMessages(LoadSystemPrompt(TRUE), Val(context_messages), text)
       IN Cardinality(stored) = 1 =>
             /\ Cardinality({i \in 1..Len(request) : request[i] = mine}) = 1
             /\ request[Len(request)] = mine


(***************************************************************************)
(* SpecTC: the cost of a turn in the budget walk of get_context_window     *)
(* (bot/session.py 203-225), on a session that is filled turn by turn      *)
(***************************************************************************)
\* update_context calls in one run of SpecTC
MaxTurns == 3

\* the turns written: a short user message and a longer one without tokens
\* (handlers.py 327-332), an assistant turn of empty content (handlers.py
\* 401-407), an assistant turn with the tokens the model reported
\* (handlers.py 544-550)
CostTurnKinds ==
    {[role |-> "user", content |-> "Hi", tokens |-> None],
     [role |-> "user", content |-> "12345678", tokens |-> None],
     [role |-> "assistant", content |-> "", tokens |-> None],
     [role |-> "assistant", content |-> "1234", tokens |-> Some(50)]}

\* the max_tokens passed: small budgets and the default of the configuration
CostBudgets == {1, 2, 52, max_context_tokens}

InitTC ==
    /\ NoTraffic /\ NoCaller /\ NoHandler /\ NoRound /\ NoGateway /\ NoExt
    /\ db_messages = << >>
    /\ now = 0
    /\ db_sessions = [s \in Sessions |-> [id |-> s, user_id |-> s, last_active |-> 0]]

\* session.py 170-201: update_context(session_id, role, content, tokens)
TCUpdateContext(session_id, kind) ==
    /\ ops < MaxTurns
    /\ ops' = ops + 1
    /\ now' = now + 1
    /\ db_messages' = UpdateContext(db_messages, session_id, kind.role, kind.content,
                                    kind.tokens, None, now')
    /\ db_sessions' = TouchSession(db_sessions, session_id, now')
    /\ last_op' = [op |-> "update_context", session_id |-> session_id]
    /\ cw' = None
    /\ UNCHANGED ties

\* session.py 203-225: get_context_window(session_id, max_tokens)
TCGetContextWindow(session_id, max_tokens) ==
    /\ \E messages \in LoadMessages(db_messages, session_id, LoadLimit) :
          cw' = Some([session_id |-> session_id, max_tokens |-> max_tokens,
                      messages |-> messages,
                      context |-> ContextOf(messages, max_tokens)])
    /\ UNCHANGED <<vars_db, last_op, ops, ties>>

NextTC ==
    \/ \E kind \in CostTurnKinds :
          TCUpdateContext(1, kind) /\ UNCHANGED vars_not_cw
    \/ \E max_tokens \in CostBudgets :
          TCGetContextWindow(1, max_tokens) /\ UNCHANGED vars_not_cw

SpecTC == InitTC /\ [][NextTC]_vars

\* the cost of a turn as stated: the recorded token count, else len(content)
\* divided by 4 and rounded down, and at least 1 when the content is not empty
StatedCost(msg) ==
    LET cost == IF msg.tokens # None THEN Val(msg.tokens) ELSE Len(msg.content) \div 4
    IN  IF msg.content # "" /\ cost < 1 THEN 1 ELSE cost

RECURSIVE StatedSum(_, _)
\* the stated cost of the n most recent of the messages
StatedSum(messages, n) ==
    IF n = 0 THEN 0
    ELSE StatedCost(messages[Len(messages) + 1 - n]) + StatedSum(messages, n - 1)

\* C28: in the budget walk the cost of a turn is its recorded token count if
\* one is recorded, otherwise floor(len(content)/4), and at least 1 when the
\* content is not empty: the context returned holds the most recent turns, as
\* many as fit into max_tokens at that cost and no more
C28_TurnCostAtLeastOne ==
    cw # None =>
       LET messages == Val(cw).messages
           n == Len(Val(cw).context)
       IN  /\ StatedSum(messages, n) <= Val(cw).max_tokens
           /\ n < Len(messages) => StatedSum(messages, n + 1) > Val(cw).max_tokens


(***************************************************************************)
(* SpecDU: update_context and the database session of its caller           *)
(* (bot/session.py 170-201, bot/handlers.py 320-334 and 611-618,           *)
(* bot/database.py)                                                        *)
(***************************************************************************)
\* update_context calls in one run of SpecDU
MaxWrites == 3

vars_not_du == <<vars_rl, cw, last_op, ties, vars_store, vars_h, vars_tr, vars_gw,
                 vars_nm, vars_mcp, vars_sp, vars_hb, vars_wp>>

InitDU ==
    /\ NoTraffic /\ NoCaller /\ NoHandler /\ NoRound /\ NoGateway /\ NoExt
    /\ db_messages = << >>
    /\ now = 0
    /\ db_sessions = [s \in Sessions |-> [id |-> s, user_id |-> s, last_active |-> 0]]

\* session.py 180-196: the row is added and flushed and last_active updated
\* inside the transaction of the caller's database session; the function
\* returns without a commit
DUUpdateContext(session_id, kind) ==
    /\ du_pc = "idle"
    /\ ops < MaxWrites
    /\ ops' = ops + 1
    /\ now' = now + 1
    /\ flushed' = UpdateContext(flushed, session_id, kind.role, kind.content,
                                kind.tokens, None, now')
    /\ returned_turns' = UpdateContext(returned_turns, session_id, kind.role,
                                       kind.content, kind.tokens, None, now')
    /\ du_pc' = "returned"
    /\ UNCHANGED <<db_messages, db_sessions>>

\* session.py 188, 196, 199: the flush, the update or the redis connection
\* raises: update_context does not return, the caller's session is closed
\* without commit
DUUpdateContextRaises(session_id, kind) ==
    /\ du_pc = "idle"
    /\ ops < MaxWrites
    /\ ops' = ops + 1
    /\ now' = now + 1
    /\ flushed' = << >>
    /\ UNCHANGED <<db_messages, db_sessions, du_pc, returned_turns>>

\* handlers.py 334: await db.commit() after update_context has returned
DUCommit ==
    /\ du_pc = "returned"
    /\ db_messages' = Commit(db_messages, flushed)
    /\ db_sessions' = TouchSession(db_sessions, flushed[Len(flushed)].session_id,
                                   flushed[Len(flushed)].created_at)
    /\ flushed' = << >>
    /\ du_pc' = "idle"
    /\ UNCHANGED <<now, returned_turns, ops>>

\* handlers.py 334, 611-618: the caller fails after update_context has
\* returned (db.commit() raises, the task is cancelled): the exception leaves
\* `async with async_session_factory() as db`, the session is closed and
\* its transaction rolled back
DUCallerFails ==
    /\ du_pc = "returned"
    /\ flushed' = << >>
    /\ du_pc' = "idle"
    /\ UNCHANGED <<db_messages, db_sessions, now, returned_turns, ops>>

NextDU ==
    \/ \E s \in Sessions, kind \in TurnKinds :
          DUUpdateContext(s, kind) /\ UNCHANGED vars_not_du
    \/ \E s \in Sessions, kind \in TurnKinds :
          DUUpdateContextRaises(s, kind) /\ UNCHANGED vars_not_du
    \/ DUCommit /\ UNCHANGED vars_not_du
    \/ DUCallerFails /\ UNCHANGED vars_not_du

SpecDU == InitDU /\ [][NextDU]_vars

\* the row is in the table messages
Persisted(row) == \E i \in 1..Len(db_messages) : db_messages[i] = row

\* C30: update_context has persisted the turn durably, and updated the
\* session's last-active time, by the time it returns: once the caller is
\* through, whether it went on or failed, every turn update_context has
\* returned for is in the table messages and its session is at least as
\* recently active as the turn
C30_DurableOnReturn ==
    du_pc = "idle" =>
       \A i \in 1..Len(returned_turns) :
          /\ Persisted(returned_turns[i])
          /\ \E j \in 1..Len(db_sessions) :
                /\ db_sessions[j].id = returned_turns[i].session_id
                /\ db_sessions[j].last_active >= returned_turns[i].created_at


(***************************************************************************)
(* SpecHB: the circuit breaker of _generate_with_retry (llm/service.py     *)
(* 94-98) under calls of several message handlers at a time. The breaker   *)
(* is one object for the whole process. A call passes it when it is not    *)
(* open or its cool-down has elapsed, and it counts the outcome when the   *)
(* call returns.                                                           *)
(***************************************************************************)
\* calls in one run of SpecHB
MaxBreakerCalls == 5

vars_not_hb == <<vars_rl, vars_db, vars_cw, vars_store, vars_h, vars_tr,
                 gw_pc, gw_tools, gw_calls, attempt_number, invocations, elapsed,
                 requests, responses, generate_result, last_error, gw_outcome,
                 consecutive_failures, rejected, trial_calls,
                 vars_nm, vars_mcp, vars_sp, vars_du, vars_wp>>

InitHB == NoTraffic /\ EmptyDB /\ NoCaller /\ NoHandler /\ NoRound /\ NoGateway /\ NoExt

\* service.py 94-98: the breaker is open and its cool-down has not elapsed:
\* the call is turned away with CircuitBreakerError
HBRejected(p) ==
    /\ hb_pc[p] = "idle"
    /\ hb_calls < MaxBreakerCalls
    /\ Opened
    /\ hb_calls' = hb_calls + 1
    /\ UNCHANGED <<hb_pc, hb_trial, gw_clock, cb_state, cb_failure_count, cb_opened>>

\* service.py 94-122: the breaker lets the call through and provider.generate
\* is awaited; the breaker keeps no record of the calls it has let through
HBEnter(p) ==
    /\ hb_pc[p] = "idle"
    /\ hb_calls < MaxBreakerCalls
    /\ ~Opened
    /\ hb_calls' = hb_calls + 1
    /\ hb_pc' = [hb_pc EXCEPT ![p] = "in_flight"]
    /\ hb_trial' = [hb_trial EXCEPT ![p] = cb_state = "open"]
    /\ UNCHANGED <<gw_clock, cb_state, cb_failure_count, cb_opened>>

\* service.py 121-127: provider.generate returns: the breaker closes and
\* its count of failures is reset
HBSucceeds(p) ==
    /\ hb_pc[p] = "in_flight"
    /\ hb_pc' = [hb_pc EXCEPT ![p] = "idle"]
    /\ cb_state' = "closed"
    /\ cb_failure_count' = 0
    /\ UNCHANGED <<hb_trial, hb_calls, gw_clock, cb_opened>>

\* service.py 128-144: the call fails with an LLMError: the breaker counts
\* it, and at the threshold it opens at the present instant
HBFails(p) ==
    /\ hb_pc[p] = "in_flight"
    /\ hb_pc' = [hb_pc EXCEPT ![p] = "idle"]
    /\ cb_failure_count' = cb_failure_count + 1
    /\ cb_state' = IF cb_failure_count' >= circuit_breaker_failures
                   THEN "open" ELSE cb_state
    /\ cb_opened' = IF cb_failure_count' >= circuit_breaker_failures
                    THEN gw_clock ELSE cb_opened
    /\ UNCHANGED <<hb_trial, hb_calls, gw_clock>>

\* time passes
HBTick ==
    /\ gw_clock < MaxClock
    /\ gw_clock' = gw_clock + 1
    /\ UNCHANGED <<hb_pc, hb_trial, hb_calls, cb_state, cb_failure_count, cb_opened>>

NextHB ==
    \/ \E p \in Procs : HBRejected(p) /\ UNCHANGED vars_not_hb
    \/ \E p \in Procs : HBEnter(p) /\ UNCHANGED vars_not_hb
    \/ \E p \in Procs : HBSucceeds(p) /\ UNCHANGED vars_not_hb
    \/ \E p \in Procs : HBFails(p) /\ UNCHANGED vars_not_hb
    \/ HBTick /\ UNCHANGED vars_not_hb

SpecHB == InitHB /\ [][NextHB]_vars

\* the trial calls at the backend: let through by the open breaker after its
\* cool-down, and not yet returned
TrialCalls == {p \in Procs : hb_pc[p] = "in_flight" /\ hb_trial[p]}

\* C31: after the cool-down of an open breaker exactly one trial call reaches
\* the backend, also when several messages are handled at a time: no two
\* trial calls are at the backend together; the success of a trial call
\* closes the breaker and resets its count of failures; its failure opens
\* the breaker again for a full cool-down
C31_OneTrialCall ==
    /\ [](Cardinality(TrialCalls) <= 1)
    /\ [][\A p \in TrialCalls :
             hb_pc'[p] = "idle" =>
                \/ cb_state' = "closed" /\ cb_failure_count' = 0
                \/ cb_state' = "open" /\ cb_opened' = gw_clock]_vars


(***************************************************************************)
(* SpecWP: the pending system-prompt update of a chat: the handlers the    *)
(* dispatcher is given (main.py 106-118), set_system_prompt_command        *)
(* (handlers.py 60-78) and the head of handle_message (handlers.py         *)
(* 165-226)                                                                *)
(***************************************************************************)
\* updates in one run of SpecWP
MaxPromptUpdates == 3

\* config.security.admin_ids
admin_ids == {1}

\* the texts of the updates: two commands and two plain texts
PromptTexts == {"Be brief", "Hi"}
UpdateTexts == {"/set_system_prompt", "/cancel"} \cup PromptTexts

\* a text that starts with a bot command
IsCommand(text) == SubSeq(text, 1, 1) = "/"

\* main.py 106-118: the handler an update goes to: the CommandHandler of its
\* command, or the MessageHandler of filters.TEXT & ~filters.COMMAND; a command
\* without a CommandHandler goes nowhere
HandlerOf(text) ==
    IF text = "/set_system_prompt" THEN "set_system_prompt_command"
    ELSE IF IsCommand(text) THEN "none"
    ELSE "handle_message"

\* str.lower() of the texts of the model
Lower(text) == IF text = "Be brief" THEN "be brief" ELSE IF text = "Hi" THEN "hi" ELSE text

InitWP == NoTraffic /\ EmptyDB /\ NoCaller /\ NoHandler /\ NoRound /\ NoGateway /\ NoExt

\* an update of the chat arrives at the dispatcher
WPUpdate(chat_id, user, text, handler, outcome) ==
    /\ wp_ops < MaxPromptUpdates
    /\ chat_id \in PrivateChats => chat_id = user
    /\ HandlerOf(text) = handler
    /\ wp_ops' = wp_ops + 1
    /\ wp_last' = [op |-> handler, chat_id |-> chat_id, user |-> user, text |-> text,
                    outcome |-> outcome]

\* handlers.py 60-78: set_system_prompt_command: an admin is awaited in the chat
WPSetSystemPromptCommand(chat_id, user) ==
    /\ WPUpdate(chat_id, user, "/set_system_prompt", "set_system_prompt_command",
                IF user \in admin_ids THEN "awaited" ELSE "denied")
    /\ waiting_for_prompt' =
          IF user \in admin_ids
          THEN [waiting_for_prompt EXCEPT ![chat_id] = user]
          ELSE waiting_for_prompt
    /\ UNCHANGED <<custom_system_prompt, sp_messages, sp_ops>>

\* handlers.py 165-226: handle_message: the message of the awaited admin ends
\* the waiting and cancels, sets the prompt, or fails to store it; every other
\* message goes on as an ordinary message
WPHandleMessage(chat_id, user, text, stored) ==
    LET awaited == waiting_for_prompt[chat_id] # NoUser
                   /\ waiting_for_prompt[chat_id] = user
        outcome == IF ~awaited THEN "ordinary"
                   ELSE IF Lower(text) = "/cancel" THEN "cancelled"
                   ELSE IF stored THEN "updated" ELSE "failed"
    IN /\ WPUpdate(chat_id, user, text, "handle_message", outcome)
       /\ awaited \/ stored
       /\ waiting_for_prompt' =
             IF awaited THEN [waiting_for_prompt EXCEPT ![chat_id] = NoUser]
             ELSE waiting_for_prompt
       /\ custom_system_prompt' =
             IF outcome = "updated" THEN Some(text) ELSE custom_system_prompt
       /\ UNCHANGED <<sp_messages, sp_ops>>

\* main.py 106-118: a command no handler is registered for: no handler runs
WPNoHandler(chat_id, user, text) ==
    /\ WPUpdate(chat_id, user, text, "none", "dropped")
    /\ UNCHANGED <<waiting_for_prompt, custom_system_prompt, sp_messages, sp_ops>>

vars_not_wp == <<vars_core, vars_nm, vars_mcp, vars_du, vars_hb>>

NextWP ==
    \/ \E c \in Chats, u \in Users :
          WPSetSystemPromptCommand(c, u) /\ UNCHANGED vars_not_wp
    \/ \E c \in Chats, u \in Users, text \in UpdateTexts, stored \in BOOLEAN :
          WPHandleMessage(c, u, text, stored) /\ UNCHANGED vars_not_wp
    \/ \E c \in Chats, u \in Users, text \in UpdateTexts :
          WPNoHandler(c, u, text) /\ UNCHANGED vars_not_wp

SpecWP == InitWP /\ [][NextWP]_vars

\* the update of this step came from user u in chat c
UpdateOf(c, u) ==
    wp_ops' = wp_ops + 1 /\ wp_last'.chat_id = c /\ wp_last'.user = u

\* C34: the system prompt is replaced only by the next message, in the same
\* chat, of the admin who issued /set_system_prompt there: the command of a
\* non-admin creates no pending state; the prompt changes only with a message
\* of the awaited admin in the chat that awaits it; the messages of other
\* users leave the pending state in place and are handled as ordinary
\* messages; and the next message of the awaited admin removes the pending
\* state, whether it sets the prompt, cancels, or fails
C34_PromptOnlyFromAwaitedAdmin ==
    [][\A c \in Chats, u \in Users :
          UpdateOf(c, u) =>
             /\ (wp_last'.text = "/set_system_prompt" /\ u \notin admin_ids) =>
                   waiting_for_prompt' = waiting_for_prompt
             /\ custom_system_prompt' # custom_system_prompt =>
                   /\ waiting_for_prompt[c] = u
                   /\ u \in admin_ids
                   /\ custom_system_prompt' = Some(wp_last'.text)
             /\ (waiting_for_prompt[c] # u /\ wp_last'.text \in PromptTexts) =>
                   /\ waiting_for_prompt' = waiting_for_prompt
                   /\ wp_last'.outcome = "ordinary"
             /\ (waiting_for_prompt[c] = u
                 /\ wp_last'.text \in PromptTexts \cup {"/cancel"}) =>
                   waiting_for_prompt'[c] = NoUser]_vars

====
